---- MODULE Spec2Model ----
(***************************************************************************)
(* Model of the GeoPackage clean/export/upload scripts:                    *)
(*   clean_and_export-producao.py    (snake_case names, all destinations)  *)
(*   clean_and_export_gpkg-DB-sld.py (camelCase names, all destinations)   *)
(*   clean_and_export_gpkg-DB.py     (camelCase names, database only)      *)
(*   clean_and_export_gpkg.py        (camelCase names, local container)    *)
(*                                                                         *)
(* A text is a sequence of characters.  An ASCII character is the string   *)
(* holding it; any other character is the string "U+XXXX" of its code      *)
(* point.                                                                  *)
(***************************************************************************)
EXTENDS Integers, Sequences, FiniteSets, TLC

VARIABLES
    script,          \* which script is being run
    TABLE_PREFIX,    \* module constant TABLE_PREFIX (edited by the user)
    TRUNCATE_LIMIT,  \* module constant TRUNCATE_LIMIT (edited by the user)
    pc,              \* position of the run
    text,            \* sanitizer: the raw name
    add_prefix,      \* sanitizer: the add_prefix argument
    result,          \* sanitizer: the returned name
    text2,           \* sanitizer: a second raw name (re-sanitized or bare form)
    result2,         \* sanitizer: the name returned for text2
    fields,          \* layer.fields(): the field names of the layer, in order
    field_rename,    \* the dict {f_orig: f_clean}, in insertion order
    style,           \* the field references of the layer's style
    qml_xml,         \* the QML payload
    sld_xml,         \* the SLD payload
    GENERATE_LOCAL_GPKG,    \* module constants of clean_and_export-producao.py
    GENERATE_LOCAL_STYLES,
    UPLOAD_TO_POSTGIS,
    UPLOAD_STYLES_TO_PG,
    GENERATE_SLD_FILES,
    layers,          \* main: the layers to process (enumeration indices)
    i_layer,         \* main: the loop variable i, position of the layer in layers
    sucesso_gpkg,    \* main: layers written to the local container
    sucesso_pg,      \* main: layers imported into the database
    falha,           \* main: the failure counter
    pg_conn,         \* main: the psycopg2 connection
    last_log,        \* main: the last write reported on the console
    printed,         \* main: positions whose "[i/n] name -> clean" line is printed
    LAYER_FILTER,    \* module constant LAYER_FILTER (0-based indices)
    OUTPUT_GPKG,     \* module constant OUTPUT_GPKG ("", a folder or a file path)
    output_gpkg,     \* main: the file at final_output
    rollback,        \* main: outcome of the last pg_conn.rollback()
    layer_styles,    \* rows of the layer_styles table of the local container
    pg_layer_styles, \* committed rows of public.layer_styles
    last_save,       \* the last call of a style registry writer
    rename_map,      \* field renaming script: the dict {index: new_name}
    MODO_DE_RETENTATIVA,                  \* batch import scripts: module constants
    NUMEROS_DAS_CAMADAS_PARA_REIMPORTAR,
    layer,           \* batch import scripts: the console's global name "layer"
    fixed_layer,     \* batch import scripts: result['OUTPUT'] of the repair
    tablename,       \* batch import scripts: the destination table
    calls,           \* batch import scripts: the processing.run calls made
    GPKG_OUTPUT_PREFIX,  \* output path: module constant GPKG_OUTPUT_PREFIX
    final_output,    \* output path: the path of the output container
    files,           \* output path: the container files that exist
    removed          \* output path: the files os.remove has deleted

vars == <<script, TABLE_PREFIX, TRUNCATE_LIMIT, pc,
          text, add_prefix, result, text2, result2,
          fields, field_rename, style, qml_xml, sld_xml,
          GENERATE_LOCAL_GPKG, GENERATE_LOCAL_STYLES, UPLOAD_TO_POSTGIS,
          UPLOAD_STYLES_TO_PG, GENERATE_SLD_FILES,
          layers, i_layer, sucesso_gpkg, sucesso_pg, falha, pg_conn, last_log, printed,
          LAYER_FILTER, OUTPUT_GPKG, output_gpkg, rollback,
          layer_styles, pg_layer_styles, last_save, rename_map,
          MODO_DE_RETENTATIVA, NUMEROS_DAS_CAMADAS_PARA_REIMPORTAR,
          layer, fixed_layer, tablename, calls,
          GPKG_OUTPUT_PREFIX, final_output, files, removed>>

flagVars == <<GENERATE_LOCAL_GPKG, GENERATE_LOCAL_STYLES, UPLOAD_TO_POSTGIS,
              UPLOAD_STYLES_TO_PG, GENERATE_SLD_FILES, LAYER_FILTER, OUTPUT_GPKG>>
countVars == <<sucesso_gpkg, sucesso_pg, falha>>
batchVars == <<MODO_DE_RETENTATIVA, NUMEROS_DAS_CAMADAS_PARA_REIMPORTAR,
               layer, fixed_layer, tablename, calls>>
pathVars == <<GPKG_OUTPUT_PREFIX, final_output, files, removed>>
storeVars == <<layer_styles, pg_layer_styles, last_save, rename_map, batchVars, pathVars>>
mainVars == <<flagVars, layers, i_layer, countVars, pg_conn, last_log, printed,
              output_gpkg, rollback, storeVars>>

cfgVars == <<script, TABLE_PREFIX, TRUNCATE_LIMIT>>
sanVars == <<text, add_prefix, result, text2, result2>>
layerVars == <<fields, field_rename, style, qml_xml, sld_xml>>

(***************************************************************************)
(* Bounds of the model.                                                    *)
(***************************************************************************)
MaxLen == 3          \* longest raw name drawn for the sanitizer
SmallLimit == 3      \* smallest TRUNCATE_LIMIT tried
MaxFields == 3       \* most fields of a layer given to the resolver
MaxStyleFields == 2  \* most fields of a layer whose style is exported
MaxRefs == 2         \* most field references in a style
MaxLayers == 2       \* most layers found by a run

(***************************************************************************)
(* Characters.                                                             *)
(***************************************************************************)
LowerAlpha == <<"a","b","c","d","e","f","g","h","i","j","k","l","m",
                "n","o","p","q","r","s","t","u","v","w","x","y","z">>
UpperAlpha == <<"A","B","C","D","E","F","G","H","I","J","K","L","M",
                "N","O","P","Q","R","S","T","U","V","W","X","Y","Z">>
LowerSet == {LowerAlpha[i] : i \in 1..26}
UpperSet == {UpperAlpha[i] : i \in 1..26}
DigitSet == {"0","1","2","3","4","5","6","7","8","9"}

ToLower == [c \in UpperSet |-> LowerAlpha[CHOOSE i \in 1..26 : UpperAlpha[i] = c]]
ToUpper == [c \in LowerSet |-> UpperAlpha[CHOOSE i \in 1..26 : LowerAlpha[i] = c]]

\* the regular expression class [a-zA-Z0-9]
IsAsciiAlnum(c) == c \in LowerSet \/ c \in UpperSet \/ c \in DigitSet

\* characters str.strip() and str.split() treat as white space
WhitespaceSet == {" ", "U+00A0"}

\* unicodedata.category(c) == 'Mn': combining acute, tilde, cedilla
MnSet == {"U+0301", "U+0303", "U+0327"}

\* canonical decompositions used by unicodedata.normalize('NFD', ..):
\*   U+00C1 A-acute, U+00E1 a-acute, U+00E3 a-tilde, U+00E7 c-cedilla.
\* U+00B2 (superscript two) and U+00F8 (o with stroke) have none.
Decomposition ==
    ("U+00C1" :> <<"A", "U+0301">>) @@ ("U+00E1" :> <<"a", "U+0301">>) @@
    ("U+00E3" :> <<"a", "U+0303">>) @@ ("U+00E7" :> <<"c", "U+0327">>)

Min(a, b) == IF a <= b THEN a ELSE b

(***************************************************************************)
(* String operations of Python used by the sanitizers.                     *)
(***************************************************************************)
\* NFD left out: the text is used as it is
NFDOmitted(t) == t

RECURSIVE NFD(_)
NFD(t) ==
    IF t = <<>> THEN <<>>
    ELSE (IF Head(t) \in DOMAIN Decomposition THEN Decomposition[Head(t)]
          ELSE <<Head(t)>>) \o NFD(Tail(t))

\* "".join(c for c in text if unicodedata.category(c) != 'Mn')
DropMn(t) == SelectSeq(t, LAMBDA c : c \notin MnSet)

RECURSIVE LStrip(_, _)
LStrip(t, S) ==
    IF t # <<>> /\ Head(t) \in S THEN LStrip(Tail(t), S) ELSE t

RECURSIVE RStrip(_, _)
RStrip(t, S) ==
    IF t # <<>> /\ t[Len(t)] \in S THEN RStrip(SubSeq(t, 1, Len(t) - 1), S) ELSE t

\* str.strip() (S = white space) and str.strip('_') (S = {"_"})
Strip(t, S) == RStrip(LStrip(t, S), S)

RECURSIVE DropNonAlnum(_)
DropNonAlnum(t) ==
    IF t # <<>> /\ ~IsAsciiAlnum(Head(t)) THEN DropNonAlnum(Tail(t)) ELSE t

\* ReSub with the pattern \s+ in place of [^a-zA-Z0-9]+
RECURSIVE ReSubWhitespace(_, _)
ReSubWhitespace(t, rep) ==
    IF t = <<>> THEN <<>>
    ELSE IF Head(t) \notin WhitespaceSet
         THEN <<Head(t)>> \o ReSubWhitespace(Tail(t), rep)
    ELSE <<rep>> \o ReSubWhitespace(LStrip(Tail(t), WhitespaceSet), rep)

\* re.sub(r'[^a-zA-Z0-9]+', rep, text)
RECURSIVE ReSub(_, _)
ReSub(t, rep) ==
    IF t = <<>> THEN <<>>
    ELSE IF IsAsciiAlnum(Head(t)) THEN <<Head(t)>> \o ReSub(Tail(t), rep)
    ELSE <<rep>> \o ReSub(DropNonAlnum(Tail(t)), rep)

LowerChar(c) == IF c \in UpperSet THEN ToLower[c] ELSE c
UpperChar(c) == IF c \in LowerSet THEN ToUpper[c] ELSE c

\* str.lower()
Lower(t) == [i \in 1..Len(t) |-> LowerChar(t[i])]

\* str.capitalize()
Capitalize(t) ==
    [i \in 1..Len(t) |-> IF i = 1 THEN UpperChar(t[i]) ELSE LowerChar(t[i])]

RECURSIVE TakeWord(_)
TakeWord(t) ==
    IF t # <<>> /\ Head(t) \notin WhitespaceSet
    THEN <<Head(t)>> \o TakeWord(Tail(t)) ELSE <<>>

\* str.split(): the maximal runs of characters that are not white space
RECURSIVE Split(_)
Split(t) ==
    LET s == LStrip(t, WhitespaceSet)
        w == TakeWord(s)
    IN  IF s = <<>> THEN <<>>
        ELSE <<w>> \o Split(SubSeq(s, Len(w) + 1, Len(s)))

\* str.startswith(p)
StartsWith(t, p) == Len(p) <= Len(t) /\ SubSeq(t, 1, Len(p)) = p

\* text[:n] for n >= 0
Slice(t, n) == SubSeq(t, 1, Min(n, Len(t)))

RECURSIVE Concat(_)
Concat(ws) == IF ws = <<>> THEN <<>> ELSE Head(ws) \o Concat(Tail(ws))

SemNomeSnake == <<"s","e","m","_","n","o","m","e">>
SemNomeCamel == <<"s","e","m","N","o","m","e">>

(***************************************************************************)
(* The sanitizers.                                                         *)
(***************************************************************************)
\* clean_and_export-producao.py: snake_case
sanitize_name_producao(t, prefixed) ==
    IF t = <<>> \/ Strip(t, WhitespaceSet) = <<>>
    THEN (IF prefixed THEN TABLE_PREFIX \o SemNomeSnake ELSE SemNomeSnake)
    ELSE LET t1 == DropMn(NFD(t))
             t2 == Lower(Strip(ReSub(t1, "_"), {"_"}))
             t3 == IF prefixed /\ ~StartsWith(t2, TABLE_PREFIX)
                   THEN TABLE_PREFIX \o t2 ELSE t2
         IN  IF t2 = <<>>
             THEN (IF prefixed THEN TABLE_PREFIX \o SemNomeSnake ELSE SemNomeSnake)
             ELSE Slice(t3, TRUNCATE_LIMIT)

\* CamelJoin capitalizing the first word too
CamelJoinPascal(words) ==
    Concat([i \in 1..Len(words) |-> Capitalize(words[i])])

\* words[0].lower() + "".join(w.capitalize() for w in words[1:])
CamelJoin(words) ==
    Lower(Head(words)) \o
    Concat([i \in 1..(Len(words) - 1) |-> Capitalize(words[i + 1])])

\* clean_and_export_gpkg-DB-sld.py: camelCase
sanitize_name_db_sld(t, prefixed) ==
    IF t = <<>> \/ Strip(t, WhitespaceSet) = <<>>
    THEN (IF prefixed THEN TABLE_PREFIX \o SemNomeCamel ELSE SemNomeCamel)
    ELSE LET t1 == DropMn(NFD(t))
             words == Split(ReSub(t1, " "))
         IN  IF words = <<>>
             THEN (IF prefixed THEN TABLE_PREFIX \o SemNomeCamel ELSE SemNomeCamel)
             ELSE LET camel == CamelJoin(words)
                      camel2 == IF prefixed /\ ~StartsWith(camel, TABLE_PREFIX)
                                THEN TABLE_PREFIX \o camel ELSE camel
                  IN  Slice(camel2, TRUNCATE_LIMIT)

\* clean_and_export_gpkg-DB.py: camelCase
sanitize_name_db(t, prefixed) ==
    IF t = <<>> \/ Strip(t, WhitespaceSet) = <<>>
    THEN (IF prefixed THEN TABLE_PREFIX \o SemNomeCamel ELSE SemNomeCamel)
    ELSE LET t1 == DropMn(NFD(t))
             words == Split(ReSub(t1, " "))
         IN  IF words = <<>>
             THEN (IF prefixed THEN TABLE_PREFIX \o SemNomeCamel ELSE SemNomeCamel)
             ELSE LET camel == CamelJoin(words)
                      camel2 == IF prefixed /\ ~StartsWith(camel, TABLE_PREFIX)
                                THEN TABLE_PREFIX \o camel ELSE camel
                  IN  Slice(camel2, TRUNCATE_LIMIT)

\* clean_and_export_gpkg.py: camelCase, the prefix is always added
sanitize_layer_name(t) ==
    IF t = <<>> \/ Strip(t, WhitespaceSet) = <<>>
    THEN TABLE_PREFIX \o SemNomeCamel
    ELSE LET t1 == DropMn(NFD(t))
             words == Split(ReSub(t1, " "))
         IN  IF words = <<>>
             THEN TABLE_PREFIX \o SemNomeCamel
             ELSE LET camel == CamelJoin(words)
                      camel2 == IF ~StartsWith(camel, TABLE_PREFIX)
                                THEN TABLE_PREFIX \o camel ELSE camel
                  IN  Slice(camel2, TRUNCATE_LIMIT)

Scripts == {"producao", "DB-sld", "DB", "gpkg"}
SnakeScripts == {"producao"}

\* the sanitizer of the script being run
sanitize_name(t, prefixed) ==
    CASE script = "producao" -> sanitize_name_producao(t, prefixed)
      [] script = "DB-sld"   -> sanitize_name_db_sld(t, prefixed)
      [] script = "DB"       -> sanitize_name_db(t, prefixed)
      [] script = "gpkg"     -> sanitize_layer_name(t)

(***************************************************************************)
(* The duplicate field name resolver.                                      *)
(***************************************************************************)
\* str(count)
RECURSIVE ToDecimal(_)
ToDecimal(n) ==
    LET d == <<"0","1","2","3","4","5","6","7","8","9">>[(n % 10) + 1]
    IN  IF n < 10 THEN <<d>> ELSE Append(ToDecimal(n \div 10), d)

\* f"{base}_{count}"
Suffixed(base, count) == base \o <<"_">> \o ToDecimal(count)

\* str.find(old): the first index at which old occurs in t, 0 if none
FindFirst(t, old) ==
    LET hits == {i \in 1..(Len(t) - Len(old) + 1) : SubSeq(t, i, i + Len(old) - 1) = old}
    IN  IF hits = {} THEN 0 ELSE CHOOSE i \in hits : \A j \in hits : i <= j

\* str.replace(old, new, 1) for a non-empty old
ReplaceFirst(t, old, new) ==
    LET i == FindFirst(t, old)
    IN  IF i = 0 THEN t
        ELSE SubSeq(t, 1, i - 1) \o new \o SubSeq(t, i + Len(old), Len(t))

\* the name of the table sanitizer taken as it is, prefix included
FieldCandidateUnstripped(f) ==
    IF script = "gpkg" THEN sanitize_layer_name(f) ELSE sanitize_name(f, FALSE)

\* the candidate f_clean of a field name, before duplicates are resolved
FieldCandidate(f) ==
    IF script = "gpkg"
    THEN ReplaceFirst(sanitize_layer_name(f), TABLE_PREFIX, <<>>)
    ELSE sanitize_name(f, FALSE)

\* the while loop entered with count = 2
RECURSIVE FirstFreeFrom(_, _, _)
FirstFreeFrom(base, count, seen) ==
    IF Suffixed(base, count) \in seen THEN FirstFreeFrom(base, count + 1, seen)
    ELSE Suffixed(base, count)

ResolveNameFromTwo(cand, seen) ==
    IF cand \in seen THEN FirstFreeFrom(cand, 2, seen) ELSE cand

\* the while loop written as an if: one suffix, not checked again
ResolveNameOnce(cand, seen) ==
    IF cand \in seen THEN Suffixed(cand, 1) ELSE cand

\* base = f_clean; count = 1
\* while f_clean in seen: f_clean = f"{base}_{count}"; count += 1
ResolveName(cand, seen) ==
    IF cand \in seen THEN FirstFreeFrom(cand, 1, seen) ELSE cand

\* the values of the dict
CleanNames(rename) == {rename[i].clean : i \in 1..Len(rename)}

\* the loop over layer.fields(); rename is the dict built so far, and the
\* set seen holds its values
RECURSIVE BuildFrom(_, _)
BuildFrom(fs, rename) ==
    IF fs = <<>> THEN rename
    ELSE LET f_orig == Head(fs)
             f_clean == ResolveName(FieldCandidate(f_orig), CleanNames(rename))
         IN  BuildFrom(Tail(fs), Append(rename, [orig |-> f_orig, clean |-> f_clean]))

build_field_rename(fs) == BuildFrom(fs, <<>>)

\* field_rename[f_orig]
Renamed(rename, f_orig) ==
    rename[CHOOSE i \in 1..Len(rename) : rename[i].orig = f_orig].clean

(***************************************************************************)
(* The style exporter.  A payload is the sequence of its field references; *)
(* a reference is written in one of the marker shapes                      *)
(*   attr  field="NAME"          elem  <field name="NAME"                  *)
(*   text  >NAME</               prop  <ogc:PropertyName>NAME</ogc:..>     *)
(* Each marker delimits the name on both sides, so str.replace on a marker *)
(* rewrites exactly the references of that shape holding that name.        *)
(***************************************************************************)
QmlShapes == {"attr", "elem", "text"}

\* payload.replace(marker(old), marker(new)) for the marker of one shape
ReplaceMarker(payload, shape, old, new) ==
    [p \in 1..Len(payload) |->
        IF payload[p].shape = shape /\ payload[p].name = old
        THEN [shape |-> shape, name |-> new] ELSE payload[p]]

\* the three replacements made in the QML text for one field
ReplaceQmlField(payload, old, new) ==
    ReplaceMarker(ReplaceMarker(ReplaceMarker(payload,
        "attr", old, new), "elem", old, new), "text", old, new)

\* for f_orig, f_clean in field_rename.items(): if f_orig != f_clean: replace
RECURSIVE RewriteQml(_, _)
RewriteQml(payload, rename) ==
    IF rename = <<>> THEN payload
    ELSE LET e == Head(rename)
         IN  RewriteQml(IF e.orig # e.clean
                        THEN ReplaceQmlField(payload, e.orig, e.clean)
                        ELSE payload,
                        Tail(rename))

RECURSIVE RewriteSld(_, _)
RewriteSld(payload, rename) ==
    IF rename = <<>> THEN payload
    ELSE LET e == Head(rename)
         IN  RewriteSld(IF e.orig # e.clean
                        THEN ReplaceMarker(payload, "prop", e.orig, e.clean)
                        ELSE payload,
                        Tail(rename))

\* layer.saveNamedStyle(qml_path) followed by reading the file
QmlOf(st) == st

\* layer.saveSldStyle(sld_path) followed by reading the file
SldOf(st) == [p \in 1..Len(st) |-> [shape |-> "prop", name |-> st[p].name]]

NoLog == [layer |-> 0, dest |-> "none", ok |-> TRUE]

NoSave == [store |-> "none", table |-> "", payload |-> "", failed |-> "none"]

\* no batch import script is running
BatchIdle ==
    /\ MODO_DE_RETENTATIVA = FALSE
    /\ NUMEROS_DAS_CAMADAS_PARA_REIMPORTAR = <<>>
    /\ layer = [bound |-> FALSE, name |-> <<>>]
    /\ fixed_layer = [kind |-> "none", index |-> 0]
    /\ tablename = <<>>
    /\ calls = <<>>

\* no output path is computed
PathIdle ==
    /\ GPKG_OUTPUT_PREFIX = <<>>
    /\ final_output = <<>>
    /\ files = {}
    /\ removed = {}

\* no style registry is written and no field is renamed in place
StoreIdle ==
    /\ layer_styles = <<>>
    /\ pg_layer_styles = <<>>
    /\ last_save = NoSave
    /\ rename_map = <<>>
    /\ BatchIdle
    /\ PathIdle

\* the main function is not running
MainIdle ==
    /\ LAYER_FILTER = <<>> /\ OUTPUT_GPKG = ""
    /\ output_gpkg = "absent" /\ rollback = "none"
    /\ StoreIdle
    /\ GENERATE_LOCAL_GPKG = TRUE /\ GENERATE_LOCAL_STYLES = TRUE
    /\ UPLOAD_TO_POSTGIS = TRUE /\ UPLOAD_STYLES_TO_PG = TRUE
    /\ GENERATE_SLD_FILES = TRUE
    /\ layers = <<>> /\ i_layer = 0
    /\ sucesso_gpkg = 0 /\ sucesso_pg = 0 /\ falha = 0
    /\ pg_conn = "none" /\ last_log = NoLog /\ printed = {}

(***************************************************************************)
(* The sanitizer applied to one raw name: the name is sanitized, and then  *)
(* either the returned name is sanitized again, or the raw name with its   *)
(* diacritical marks removed is sanitized.                                 *)
(***************************************************************************)
InputAlphabet == {"t", "A", "1", " ", "_", "U+00C1", "U+0301"}

Texts(n) == UNION {[1..k -> InputAlphabet] : k \in 0..n}

Prefixes == {<<"t", "_">>, <<"t", "1", "_">>}

DefaultLimit == 63

TruncateLimits == {SmallLimit, SmallLimit + 1, DefaultLimit}

\* names and prefixes of the documented examples
UsoDoSolo == <<"U","s","o"," ","d","o"," ","S","o","l","o"," ","(","2","0","2","4",")">>
AreaKm2 == <<"U+00C1","r","e","a"," ","k","m","U+00B2">>
PrefixDpdu == <<"d","p","d","u","_">>
PrefixTeste == <<"t","e","s","t","e","_">>

InitSanitize ==
    /\ script \in Scripts
    /\ \/ /\ TABLE_PREFIX \in Prefixes
          /\ TRUNCATE_LIMIT \in TruncateLimits
          /\ text \in Texts(MaxLen)
       \/ /\ TABLE_PREFIX \in {PrefixDpdu, PrefixTeste}
          /\ TRUNCATE_LIMIT = DefaultLimit
          /\ text \in {UsoDoSolo, AreaKm2}
    /\ add_prefix \in (IF script = "gpkg" THEN {TRUE} ELSE BOOLEAN)
    /\ pc = "start"
    /\ result = <<>>
    /\ text2 = <<>>
    /\ result2 = <<>>
    /\ fields = <<>>
    /\ field_rename = <<>>
    /\ style = <<>>
    /\ qml_xml = <<>>
    /\ sld_xml = <<>>
    /\ MainIdle

\* name_clean = sanitize_name(name, add_prefix)
Sanitize ==
    /\ pc = "start"
    /\ result' = sanitize_name(text, add_prefix)
    /\ pc' = "sanitized"
    /\ UNCHANGED <<cfgVars, layerVars, mainVars, text, add_prefix, text2, result2>>

\* the returned name is given to the sanitizer again
Resanitize ==
    /\ pc = "sanitized"
    /\ text2' = result
    /\ result2' = sanitize_name(result, add_prefix)
    /\ pc' = "resanitized"
    /\ UNCHANGED <<cfgVars, layerVars, mainVars, text, add_prefix, result>>

\* the base letter of an accented letter
BaseLetter ==
    ("U+00C1" :> "A") @@ ("U+00E1" :> "a") @@ ("U+00E3" :> "a") @@ ("U+00E7" :> "c")

IsLetter(c) == c \in LowerSet \/ c \in UpperSet \/ c \in DOMAIN BaseLetter

\* t with every accented letter replaced by its bare base letter: a
\* precomposed accented letter becomes its base letter, and the combining
\* marks that follow a letter are removed
RECURSIVE BareFrom(_, _)
BareFrom(t, afterLetter) ==
    IF t = <<>> THEN <<>>
    ELSE IF Head(t) \in DOMAIN BaseLetter
         THEN <<BaseLetter[Head(t)]>> \o BareFrom(Tail(t), TRUE)
    ELSE IF Head(t) \in MnSet /\ afterLetter THEN BareFrom(Tail(t), TRUE)
    ELSE <<Head(t)>> \o BareFrom(Tail(t), IsLetter(Head(t)))

Bare(t) == BareFrom(t, FALSE)

\* the raw name without its diacritical marks is sanitized
SanitizeBare ==
    /\ pc = "sanitized"
    /\ text2' = Bare(text)
    /\ result2' = sanitize_name(Bare(text), add_prefix)
    /\ pc' = "bare"
    /\ UNCHANGED <<cfgVars, layerVars, mainVars, text, add_prefix, result>>

NextSanitize == Sanitize \/ Resanitize \/ SanitizeBare

SpecSanitize == InitSanitize /\ [][NextSanitize]_vars

(***************************************************************************)
(* Properties of the sanitizer.                                            *)
(***************************************************************************)
IdentChars == LowerSet \cup UpperSet \cup DigitSet \cup {"_"}

\* C1: with add_prefix = True the sanitizer returns, for every raw name and
\* both conventions, a non-empty string of ASCII letters, digits and
\* underscores whose first character is not a digit.
C1_ValidIdentifier ==
    (pc # "start" /\ add_prefix) =>
        /\ result # <<>>
        /\ \A i \in 1..Len(result) : result[i] \in IdentChars
        /\ result[1] \notin DigitSet

\* a raw name with punctuation and accents has been sanitized with the prefix
C1_Witness ==
    /\ pc = "sanitized" /\ add_prefix
    /\ text = UsoDoSolo
    /\ Len(result) > Len(TABLE_PREFIX)

\* C2: the returned name has at most TRUNCATE_LIMIT characters, for every
\* raw name, add_prefix, prefix and limit, the fallback names included.
C2_LengthWithinLimit ==
    pc # "start" => Len(result) <= TRUNCATE_LIMIT

\* the reference algorithm: the text without its combining marks
RefStripMarks(t) ==
    LET kept == SelectSeq(t, LAMBDA c : c \notin MnSet)
    IN  [i \in 1..Len(kept) |->
            IF kept[i] \in DOMAIN BaseLetter THEN BaseLetter[kept[i]] ELSE kept[i]]

\* the reference algorithm: the words of t, its maximal runs of ASCII
\* letters and digits (cur is the word being read)
RECURSIVE RefWords(_, _)
RefWords(t, cur) ==
    LET done == IF cur = <<>> THEN <<>> ELSE <<cur>>
    IN  IF t = <<>> THEN done
        ELSE IF IsAsciiAlnum(Head(t)) THEN RefWords(Tail(t), Append(cur, Head(t)))
        ELSE done \o RefWords(Tail(t), <<>>)

RECURSIVE RefJoinSnake(_)
RefJoinSnake(ws) ==
    IF Len(ws) = 1 THEN Lower(ws[1])
    ELSE Lower(ws[1]) \o <<"_">> \o RefJoinSnake(Tail(ws))

RECURSIVE RefJoinCamelTail(_)
RefJoinCamelTail(ws) ==
    IF ws = <<>> THEN <<>>
    ELSE <<UpperChar(ws[1][1])>> \o Lower(Tail(ws[1])) \o RefJoinCamelTail(Tail(ws))

RefSanitize(t, prefixed, snake) ==
    LET ws == RefWords(RefStripMarks(t), <<>>)
        fallback == IF snake THEN SemNomeSnake ELSE SemNomeCamel
        joined == IF snake THEN RefJoinSnake(ws)
                  ELSE Lower(ws[1]) \o RefJoinCamelTail(Tail(ws))
        named == IF prefixed /\ ~StartsWith(joined, TABLE_PREFIX)
                 THEN TABLE_PREFIX \o joined ELSE joined
    IN  IF ws = <<>> THEN (IF prefixed THEN TABLE_PREFIX \o fallback ELSE fallback)
        ELSE Slice(named, TRUNCATE_LIMIT)

DpduUsoDoSolo2024 ==
    <<"d","p","d","u","_","u","s","o","_","d","o","_","s","o","l","o","_","2","0","2","4">>
TesteAreaKm == <<"t","e","s","t","e","_","a","r","e","a","K","m">>

\* C3: the sanitizer returns what the reference algorithm returns (marks
\* stripped, runs of other characters as one separator, fallback when no word
\* remains, words joined by the convention, prefix added when requested and
\* absent, truncation last); "Uso do Solo (2024)" with prefix dpdu_ gives
\* dpdu_uso_do_solo_2024 in snake_case and "Area km2" (A-acute, superscript
\* two) with prefix teste_ gives teste_areaKm in camelCase.
C3_EqualsReference ==
    pc # "start" =>
        /\ result = RefSanitize(text, add_prefix, script \in SnakeScripts)
        /\ (/\ script \in SnakeScripts /\ add_prefix
            /\ text = UsoDoSolo /\ TABLE_PREFIX = PrefixDpdu)
           => result = DpduUsoDoSolo2024
        /\ (/\ script \notin SnakeScripts /\ add_prefix
            /\ text = AreaKm2 /\ TABLE_PREFIX = PrefixTeste)
           => result = TesteAreaKm

\* the camelCase example has been sanitized
C3_Witness ==
    /\ pc = "sanitized" /\ add_prefix
    /\ script = "DB-sld"
    /\ text = AreaKm2 /\ TABLE_PREFIX = PrefixTeste
    /\ result = TesteAreaKm

\* C4: a raw name and the same name with its accented letters replaced by
\* their bare base letters are sanitized to the same name.
C4_AccentInsensitive ==
    pc = "bare" => result2 = result

\* an accented name and its different bare form gave the same proper name
C4_Witness ==
    /\ pc = "bare"
    /\ text2 # text
    /\ \E i \in 1..Len(text) : text[i] \in DOMAIN BaseLetter
    /\ result2 = result
    /\ result \notin {SemNomeSnake, SemNomeCamel,
                      TABLE_PREFIX \o SemNomeSnake, TABLE_PREFIX \o SemNomeCamel}

\* C5: sanitizing with add_prefix = True a name that the sanitizer returned
\* with add_prefix = True (a name that bears the prefix and is within the
\* length limit) gives that name back, in both conventions.
C5_Idempotent ==
    (/\ pc = "resanitized" /\ add_prefix
     /\ StartsWith(result, TABLE_PREFIX)
     /\ Len(result) <= TRUNCATE_LIMIT)
    => result2 = result

(***************************************************************************)
(* The resolver applied to the fields of one layer, and the style exporter *)
(* applied to the layer's style with the resulting rename map.             *)
(***************************************************************************)
FieldNames ==
    { <<"I","D">>, <<"i","d">>, <<"I","d">>, <<"i","d","_","1">>, <<"i","d","1">>,
      <<"i"," ","d">>, <<"?">>, <<"s","e","m","_","n","o","m","e">>,
      <<"s","e","m","N","o","m","e">>, <<"t","_","i","d">> }

\* the ordered lists of at most n pairwise distinct field names
FieldLists(n) ==
    UNION {{fs \in [1..k -> FieldNames] :
               \A i, j \in 1..k : i < j => fs[i] # fs[j]} : k \in 0..n}

\* the styles of a layer: at most n references to fields of the layer
Styles(fs, n) ==
    UNION {[1..k -> [shape : QmlShapes, name : {fs[i] : i \in 1..Len(fs)}]] : k \in 0..n}

InitRename ==
    /\ script \in Scripts
    /\ TABLE_PREFIX \in Prefixes
    /\ TRUNCATE_LIMIT \in TruncateLimits
    /\ fields \in FieldLists(MaxFields)
    /\ style = <<>>
    /\ pc = "fields"
    /\ field_rename = <<>>
    /\ qml_xml = <<>>
    /\ sld_xml = <<>>
    /\ text = <<>> /\ add_prefix = FALSE /\ result = <<>>
    /\ text2 = <<>> /\ result2 = <<>>
    /\ MainIdle

\* field_rename = build_field_rename(layer)
BuildFieldRename ==
    /\ pc = "fields"
    /\ field_rename' = build_field_rename(fields)
    /\ pc' = "renamed"
    /\ UNCHANGED <<cfgVars, sanVars, mainVars, fields, style, qml_xml, sld_xml>>

NextRename == BuildFieldRename

SpecRename == InitRename /\ [][NextRename]_vars

InitStyle ==
    /\ script \in {"producao", "DB-sld", "gpkg"}
    /\ TABLE_PREFIX = <<"t", "_">>
    /\ TRUNCATE_LIMIT = DefaultLimit
    /\ fields \in FieldLists(MaxStyleFields)
    /\ style \in Styles(fields, MaxRefs)
    /\ pc = "fields"
    /\ field_rename = <<>>
    /\ qml_xml = <<>>
    /\ sld_xml = <<>>
    /\ text = <<>> /\ add_prefix = FALSE /\ result = <<>>
    /\ text2 = <<>> /\ result2 = <<>>
    /\ MainIdle

\* qml_xml, sld_xml = export_styles(layer, field_rename); a style file the
\* host did not write leaves its payload empty
ExportStyles ==
    /\ pc = "renamed"
    /\ \E qml_written, sld_written \in BOOLEAN :
        /\ qml_xml' = IF qml_written THEN RewriteQml(QmlOf(style), field_rename)
                      ELSE <<>>
        /\ sld_xml' = IF sld_written THEN RewriteSld(SldOf(style), field_rename)
                      ELSE <<>>
    /\ pc' = "exported"
    /\ UNCHANGED <<cfgVars, sanVars, mainVars, fields, field_rename, style>>

NextStyle == BuildFieldRename \/ ExportStyles

SpecStyle == InitStyle /\ [][NextStyle]_vars

(***************************************************************************)
(* Properties of the resolver and of the style exporter.                   *)
(***************************************************************************)
\* C6: for an ordered list of pairwise distinct field names the resolver
\* returns one entry per field, and the new names are pairwise distinct.
C6_DistinctNames ==
    pc = "renamed" =>
        /\ Len(field_rename) = Len(fields)
        /\ \A i \in 1..Len(fields) : field_rename[i].orig = fields[i]
        /\ \A i, j \in 1..Len(field_rename) :
              i # j => field_rename[i].clean # field_rename[j].clean
        /\ Cardinality(CleanNames(field_rename)) = Len(fields)

\* three fields with one candidate have received three different names
C6_Witness ==
    /\ pc = "renamed"
    /\ Len(fields) = 3
    /\ \A i \in 1..3 : FieldCandidate(fields[i]) = FieldCandidate(fields[1])
    /\ Cardinality(CleanNames(field_rename)) = 3

\* the names assigned to the fields before field i
AssignedBefore(i) == {field_rename[j].clean : j \in 1..(i - 1)}

\* n is base_k for the smallest k >= 1 such that base_k is not in taken
SmallestFreeSuffix(n, base, taken) ==
    \E k \in 1..(Cardinality(taken) + 1) :
        /\ n = Suffixed(base, k)
        /\ n \notin taken
        /\ \A m \in 1..(k - 1) : Suffixed(base, m) \in taken

\* C7: the first field whose candidate is c is mapped to c unchanged, and
\* each later field with the candidate c is mapped to c_k for the smallest
\* positive k such that c_k is not yet assigned in the layer.
C7_FirstUnchangedLaterSuffixed ==
    pc = "renamed" =>
        \A i \in 1..Len(fields) :
            LET c == FieldCandidate(fields[i])
                first == \A j \in 1..(i - 1) : FieldCandidate(fields[j]) # c
            IN  IF first THEN field_rename[i].clean = c
                ELSE SmallestFreeSuffix(field_rename[i].clean, c, AssignedBefore(i))

\* C7 as amended: a field is mapped to its candidate c unchanged when c is
\* not yet assigned in the layer (as a candidate or as a suffixed name), and
\* otherwise to c_k for the smallest positive k such that c_k is not yet
\* assigned; fields "ID" then "id" resolve to id and id_1.
C7_UnassignedUnchangedElseSuffixed ==
    pc = "renamed" =>
        /\ \A i \in 1..Len(fields) :
            LET c == FieldCandidate(fields[i])
            IN  IF c \notin AssignedBefore(i) THEN field_rename[i].clean = c
                ELSE SmallestFreeSuffix(field_rename[i].clean, c, AssignedBefore(i))
        /\ (fields = << <<"I","D">>, <<"i","d">> >> /\ TRUNCATE_LIMIT = DefaultLimit)
           => field_rename = << [orig |-> <<"I","D">>, clean |-> <<"i","d">>],
                                [orig |-> <<"i","d">>, clean |-> <<"i","d","_","1">>] >>

\* the fields ID, id have been resolved
C7_Witness ==
    /\ pc = "renamed"
    /\ fields = << <<"I","D">>, <<"i","d">> >>
    /\ TRUNCATE_LIMIT = DefaultLimit
    /\ field_rename[2].clean = <<"i","d","_","1">>

\* C8: after the substitutions of export_styles, for each field whose old
\* name differs from its new name, the payload holds the new name in every
\* marker where the old name occurred, and no marker of the old name is left.
C8_StyleRoundTrip ==
    pc = "exported" =>
        \A i \in 1..Len(field_rename) :
            LET old == field_rename[i].orig
                new == field_rename[i].clean
            IN  old # new =>
                /\ qml_xml # <<>> =>
                    /\ \A p \in 1..Len(style) :
                          style[p].name = old =>
                              qml_xml[p] = [shape |-> style[p].shape, name |-> new]
                    /\ \A p \in 1..Len(qml_xml) : qml_xml[p].name # old
                /\ sld_xml # <<>> =>
                    /\ \A p \in 1..Len(style) :
                          style[p].name = old =>
                              sld_xml[p] = [shape |-> "prop", name |-> new]
                    /\ \A p \in 1..Len(sld_xml) : sld_xml[p].name # old

(***************************************************************************)
(* The run of a script: main().                                            *)
(*   producao  A local container, B styles, B_save local style record,     *)
(*             B2 .sld file, C database import, D database style record    *)
(*   DB-sld    A, B, B_save, C, D                                          *)
(*   gpkg      A, B, B_save                                                *)
(*   DB        C                                                           *)
(***************************************************************************)
\* the loop body with the database steps placed first
StepsOfImportFirst(sc) ==
    CASE sc = "producao" -> <<"C", "D", "A", "B", "B_save", "B2">>
      [] sc = "DB-sld"   -> <<"C", "D", "A", "B", "B_save">>
      [] sc = "gpkg"     -> <<"A", "B", "B_save">>
      [] sc = "DB"       -> <<"C">>

StepsOf(sc) ==
    CASE sc = "producao" -> <<"A", "B", "B_save", "B2", "C", "D">>
      [] sc = "DB-sld"   -> <<"A", "B", "B_save", "C", "D">>
      [] sc = "gpkg"     -> <<"A", "B", "B_save">>
      [] sc = "DB"       -> <<"C">>

\* the payloads a style export returns in a run: empty or not
QmlSample == << [shape |-> "attr", name |-> <<"i","d">>] >>
SldSample == << [shape |-> "prop", name |-> <<"i","d">>] >>

\* the script needs the saved connection
NeedsCredentials ==
    \/ script \in {"DB-sld", "DB"}
    \/ script = "producao" /\ (UPLOAD_TO_POSTGIS \/ UPLOAD_STYLES_TO_PG)

\* the script opens a psycopg2 connection
NeedsConnection ==
    \/ script = "DB-sld"
    \/ script = "producao" /\ (UPLOAD_TO_POSTGIS \/ UPLOAD_STYLES_TO_PG)

\* the lists LAYER_FILTER is set to: none, a reordering, one with a negative
\* index, one whose only index is past the last layer
FilterLists == {<<>>, <<1, 0>>, <<0 - 1, 0>>, <<MaxLayers>>}

OutFolder == "C:/saida"

OutFile == "C:/saida/limpo.gpkg"

\* os.path.isdir(final_output)
IsDir(path) == path = OutFolder

\* the script writes a local container
HasOutput == script # "DB"

InitMain ==
    /\ script \in Scripts
    /\ LAYER_FILTER \in (IF script = "producao" THEN FilterLists ELSE {<<>>})
    /\ OUTPUT_GPKG \in (IF HasOutput THEN {"", OutFolder, OutFile} ELSE {""})
    /\ output_gpkg \in (IF HasOutput THEN {"absent", "old"} ELSE {"absent"})
    /\ rollback = "none"
    /\ StoreIdle
    /\ TABLE_PREFIX = PrefixTeste
    /\ TRUNCATE_LIMIT = DefaultLimit
    /\ IF script = "producao"
       THEN /\ GENERATE_LOCAL_GPKG \in BOOLEAN
            /\ GENERATE_LOCAL_STYLES \in BOOLEAN
            /\ UPLOAD_TO_POSTGIS \in BOOLEAN
            /\ UPLOAD_STYLES_TO_PG \in BOOLEAN
            /\ GENERATE_SLD_FILES \in BOOLEAN
       ELSE /\ GENERATE_LOCAL_GPKG = TRUE /\ GENERATE_LOCAL_STYLES = TRUE
            /\ UPLOAD_TO_POSTGIS = TRUE /\ UPLOAD_STYLES_TO_PG = TRUE
            /\ GENERATE_SLD_FILES = TRUE
    /\ pc = "start"
    /\ layers = <<>> /\ i_layer = 0
    /\ sucesso_gpkg = 0 /\ sucesso_pg = 0 /\ falha = 0
    /\ pg_conn = "none" /\ last_log = NoLog /\ printed = {}
    /\ fields = <<>> /\ field_rename = <<>> /\ style = <<>>
    /\ qml_xml = <<>> /\ sld_xml = <<>>
    /\ text = <<>> /\ add_prefix = FALSE /\ result = <<>>
    /\ text2 = <<>> /\ result2 = <<>>

idleVars == <<cfgVars, sanVars, fields, field_rename, style, flagVars, storeVars>>

\* the early return without pg_conn.close()
CloseOmitted(conn) == conn

\* if pg_conn: pg_conn.close()
Closed(conn) == IF conn = "none" THEN "none" ELSE "closed"

\* creds = get_pg_credentials(..) / db_name = get_pg_database_name(..)
GetCredentials ==
    /\ pc = "start"
    /\ \E ok \in BOOLEAN :
        pc' = IF NeedsCredentials /\ ~ok THEN "aborted" ELSE "connect"
    /\ UNCHANGED <<idleVars, output_gpkg, rollback, qml_xml, sld_xml, layers, i_layer, countVars,
                   pg_conn, last_log, printed>>

\* pg_conn = pg_connect(creds)
Connect ==
    /\ pc = "connect"
    /\ \E ok \in BOOLEAN :
        IF NeedsConnection
        THEN /\ pg_conn' = IF ok THEN "open" ELSE "none"
             /\ pc' = IF ok THEN "collect" ELSE "aborted"
        ELSE /\ pg_conn' = pg_conn
             /\ pc' = "collect"
    /\ UNCHANGED <<idleVars, output_gpkg, rollback, qml_xml, sld_xml, layers, i_layer, countVars,
                   last_log, printed>>

\* layers = get_layers_to_process(), with the two early returns
CollectLayers ==
    /\ pc = "collect"
    /\ \E n \in 0..MaxLayers, raised \in BOOLEAN :
        IF raised \/ n = 0
        THEN /\ pg_conn' = Closed(pg_conn)
             /\ pc' = "aborted"
             /\ layers' = layers
        ELSE /\ layers' = [k \in 1..n |-> k]
             /\ pc' = "prepare"
             /\ pg_conn' = pg_conn
    /\ UNCHANGED <<idleVars, output_gpkg, rollback, qml_xml, sld_xml, i_layer, countVars, last_log, printed>>

\* layers_selected = [layers[i] for i in LAYER_FILTER if 0 <= i < len(layers)]
RECURSIVE Selected(_, _)
Selected(ls, filter) ==
    IF filter = <<>> THEN <<>>
    ELSE LET i == Head(filter)
         IN  (IF 0 <= i /\ i < Len(ls) THEN <<ls[i + 1]>> ELSE <<>>)
             \o Selected(ls, Tail(filter))

\* the layers kept by "if LAYER_FILTER:" (an empty list keeps them all)
Filtered(ls) ==
    IF script = "producao" /\ LAYER_FILTER # <<>>
    THEN Selected(ls, LAYER_FILTER)
    ELSE ls

\* final_output is derived from layers[0]['source_path']
NeedsFirstLayer == OUTPUT_GPKG = "" \/ IsDir(OUTPUT_GPKG)

\* the filter, final_output (layers[0] of an empty list raises IndexError),
\* os.makedirs (raises OSError when a folder cannot be created), the removal
\* of an existing output file (a failure is only a warning), the counters
PrepareOutput ==
    /\ pc = "prepare"
    /\ layers' = Filtered(layers)
    /\ IF HasOutput /\ NeedsFirstLayer /\ Filtered(layers) = <<>>
       THEN /\ pc' = "IndexError"
            /\ UNCHANGED <<output_gpkg, i_layer, countVars>>
       ELSE \E makedirs_ok \in BOOLEAN, remove_ok \in BOOLEAN :
            /\ ~makedirs_ok =>
                 /\ HasOutput
                 /\ output_gpkg = "absent" \/ (script = "producao" /\ GENERATE_SLD_FILES)
            /\ IF ~makedirs_ok
               THEN /\ pc' = "OSError"
                    /\ UNCHANGED <<output_gpkg, i_layer, countVars>>
               ELSE /\ output_gpkg' = IF output_gpkg = "old" /\ remove_ok
                                      THEN "removed" ELSE output_gpkg
                    /\ sucesso_gpkg' = 0 /\ sucesso_pg' = 0 /\ falha' = 0
                    /\ i_layer' = 1
                    /\ pc' = "loop"
    /\ UNCHANGED <<idleVars, rollback, qml_xml, sld_xml, pg_conn, last_log, printed>>

\* for i, l_data in enumerate(layers, 1): the header line is printed
BeginLayer ==
    /\ pc = "loop"
    /\ IF i_layer <= Len(layers)
       THEN /\ printed' = printed \cup {i_layer}
            /\ rollback' = "none"
            /\ pc' = StepsOf(script)[1]
       ELSE /\ printed' = printed
            /\ rollback' = rollback
            /\ pc' = "close"
    /\ UNCHANGED <<idleVars, output_gpkg, qml_xml, sld_xml, layers, i_layer, countVars,
                   pg_conn, last_log>>

\* the step after step st of the current layer ("loop": the next layer)
StepAfter(st) ==
    LET steps == StepsOf(script)
        k == CHOOSE j \in 1..Len(steps) : steps[j] = st
    IN  IF k < Len(steps) THEN steps[k + 1] ELSE "loop"

\* pc and i after step st when the layer goes on
GoOn(st) ==
    /\ pc' = StepAfter(st)
    /\ i_layer' = IF StepAfter(st) = "loop" THEN i_layer + 1 ELSE i_layer

\* the except block without continue: the loop variable does not move
ContinueSameLayer ==
    /\ pc' = "loop"
    /\ i_layer' = i_layer

\* the except block without continue: the next step of the same layer
ContinueOmitted == GoOn(pc)

\* continue: the next layer
Continue ==
    /\ pc' = "loop"
    /\ i_layer' = i_layer + 1

Logged(dest, ok) == [layer |-> i_layer, dest |-> dest, ok |-> ok]

\* falha += 1 counted twice
IncFalhaTwice(f) == f + 2

\* falha += 1 left out
IncFalhaOmitted(f) == f

\* falha += 1
IncFalha(f) == f + 1

\* A: processing.run("native:refactorfields", ..) into the local container
WriteLocal ==
    /\ pc = "A"
    /\ IF script = "producao" /\ ~GENERATE_LOCAL_GPKG
       THEN /\ GoOn("A")
            /\ UNCHANGED <<countVars, last_log, output_gpkg>>
       ELSE \E ok \in BOOLEAN :
            /\ last_log' = Logged("gpkg", ok)
            /\ output_gpkg' = IF ok /\ output_gpkg # "old" THEN "written" ELSE output_gpkg
            /\ IF ok
               THEN /\ sucesso_gpkg' = sucesso_gpkg + 1
                    /\ falha' = falha
                    /\ GoOn("A")
               ELSE /\ falha' = IncFalha(falha)
                    /\ sucesso_gpkg' = sucesso_gpkg
                    /\ Continue
            /\ sucesso_pg' = sucesso_pg
    /\ UNCHANGED <<idleVars, rollback, qml_xml, sld_xml, layers, pg_conn, printed>>

\* the payloads an exception of step B leaves behind.  producao and DB-sld
\* set qml_xml, sld_xml = "", "" before the call of export_styles, which
\* returns or raises as a whole.  gpkg assigns the two names inside its try
\* block, one after the other: an exception before the first assignment
\* leaves both as the layer before left them, one between the two leaves
\* sld_xml so, a later one leaves what was assigned.
PayloadsAfterRaise(q, sl, assigned) ==
    IF script = "gpkg"
    THEN <<IF assigned >= 1 THEN q ELSE qml_xml,
           IF assigned >= 2 THEN sl ELSE sld_xml>>
    ELSE <<(<<>>), (<<>>)>>

\* B: export_styles(layer, field_rename), in gpkg the statements of the try
\* block up to the call of save_style_to_gpkg.  In DB-sld and gpkg an
\* exception also leaves the try block that holds the local style write,
\* which is logged as not written.
ExportStylesMain ==
    /\ pc = "B"
    /\ \E raised \in BOOLEAN, q \in {<<>>, QmlSample}, sl \in {<<>>, SldSample},
          assigned \in 0..2 :
        /\ qml_xml' = IF raised THEN PayloadsAfterRaise(q, sl, assigned)[1] ELSE q
        /\ sld_xml' = IF raised THEN PayloadsAfterRaise(q, sl, assigned)[2] ELSE sl
        /\ IF raised /\ script # "producao"
           THEN /\ last_log' = Logged("style_gpkg", FALSE)
                /\ GoOn("B_save")
           ELSE /\ last_log' = last_log
                /\ GoOn("B")
    /\ UNCHANGED <<idleVars, output_gpkg, rollback, layers, countVars, pg_conn, printed>>

\* the local style record is written for this layer
LocalStyleAttempted ==
    IF script = "producao"
    THEN GENERATE_LOCAL_GPKG /\ GENERATE_LOCAL_STYLES
         /\ (qml_xml # <<>> \/ sld_xml # <<>>)
    ELSE TRUE

\* B: ensure_sqlite_layer_styles + save_style_sqlite / save_style_to_gpkg
SaveStyleLocal ==
    /\ pc = "B_save"
    /\ IF LocalStyleAttempted
       THEN \E ok \in BOOLEAN : last_log' = Logged("style_gpkg", ok)
       ELSE last_log' = last_log
    /\ GoOn("B_save")
    /\ UNCHANGED <<idleVars, output_gpkg, rollback, qml_xml, sld_xml, layers, countVars, pg_conn, printed>>

\* B2: the .sld file of the layer is written
WriteSldFile ==
    /\ pc = "B2"
    /\ IF GENERATE_SLD_FILES /\ sld_xml # <<>>
       THEN \E ok \in BOOLEAN : last_log' = Logged("sld_file", ok)
       ELSE last_log' = last_log
    /\ GoOn("B2")
    /\ UNCHANGED <<idleVars, output_gpkg, rollback, qml_xml, sld_xml, layers, countVars, pg_conn, printed>>

\* C: refactorfields into memory and native:importintopostgis
ImportPostgis ==
    /\ pc = "C"
    /\ IF script = "producao" /\ ~UPLOAD_TO_POSTGIS
       THEN /\ GoOn("C")
            /\ UNCHANGED <<countVars, last_log>>
       ELSE \E ok \in BOOLEAN :
            /\ last_log' = Logged("postgis", ok)
            /\ IF ok
               THEN /\ sucesso_pg' = sucesso_pg + 1
                    /\ falha' = falha
                    /\ GoOn("C")
               ELSE /\ falha' = IncFalha(falha)
                    /\ sucesso_pg' = sucesso_pg
                    /\ Continue
            /\ sucesso_gpkg' = sucesso_gpkg
    /\ UNCHANGED <<idleVars, output_gpkg, rollback, qml_xml, sld_xml, layers, pg_conn, printed>>

\* the except block without pg_conn.rollback()
RollbackOmitted(rollback_ok) == "none"

\* try: pg_conn.rollback() / except Exception: pass
RollbackOutcome(rollback_ok) == IF rollback_ok THEN "done" ELSE "raised"

\* the database style record is written for this layer
PgStyleAttempted ==
    /\ script = "producao" => UPLOAD_STYLES_TO_PG
    /\ qml_xml # <<>> \/ sld_xml # <<>>

\* D: save_style_pg(pg_conn, ..); on an exception pg_conn.rollback(), whose
\* own exception is swallowed.  A connection left in a failed transaction
\* refuses the statements of a later save_style_pg.
SaveStylePg ==
    /\ pc = "D"
    /\ IF PgStyleAttempted
       THEN \E ok \in BOOLEAN, rollback_ok \in BOOLEAN :
            /\ ok => pg_conn = "open"
            /\ last_log' = Logged("style_pg", ok)
            /\ pg_conn' = IF ok THEN pg_conn
                          ELSE IF rollback_ok THEN "open" ELSE "failed"
            /\ rollback' = IF ok THEN rollback ELSE RollbackOutcome(rollback_ok)
       ELSE UNCHANGED <<last_log, pg_conn, rollback>>
    /\ GoOn("D")
    /\ UNCHANGED <<idleVars, output_gpkg, qml_xml, sld_xml, layers, countVars, printed>>

\* pg_conn.close() and the summary
Finish ==
    /\ pc = "close"
    /\ pg_conn' = Closed(pg_conn)
    /\ pc' = "done"
    /\ UNCHANGED <<idleVars, output_gpkg, rollback, qml_xml, sld_xml, layers, i_layer, countVars,
                   last_log, printed>>

Next ==
    \/ GetCredentials \/ Connect \/ CollectLayers \/ PrepareOutput
    \/ BeginLayer \/ WriteLocal \/ ExportStylesMain \/ SaveStyleLocal
    \/ WriteSldFile \/ ImportPostgis \/ SaveStylePg \/ Finish

Init == InitMain

Spec == Init /\ [][Next]_vars

(***************************************************************************)
(* The style registries: the layer_styles table of the local container and *)
(* public.layer_styles of the database.  A table is the sequence of its    *)
(* rows in insertion order; neither table has a uniqueness constraint      *)
(* besides the id.  Each writer runs DELETE, INSERT and commit in one      *)
(* transaction: sqlite3 opens it implicitly before the DELETE and discards *)
(* it when the connection is dropped without commit; psycopg2 opens it     *)
(* with the first statement and the caller rolls it back.                  *)
(***************************************************************************)
MaxPrior == 1

StyleTables == {"t_a", "t_b"}

StylePayloads == {"p1", "p2"}

PG_SCHEMA == "geohab"

DbName == "banco"

\* where a call of a writer raises
FailPoints == {"none", "delete", "insert", "commit"}

Row(catalog, schema, table, payload) ==
    [catalog |-> catalog, schema |-> schema, table |-> table,
     style |-> table, payload |-> payload]

RECURSIVE Without(_, _)
\* the rows that are not in the set gone
Without(rows, gone) ==
    IF rows = <<>> THEN <<>>
    ELSE (IF Head(rows) \in gone THEN <<>> ELSE <<Head(rows)>>)
         \o Without(Tail(rows), gone)

RowsOf(rows) == {rows[k] : k \in 1..Len(rows)}

\* WHERE f_table_name=? AND styleName=?
SqliteKeyMatches(row, table_name) ==
    row.table = table_name /\ row.style = table_name

\* the writer without its DELETE
DeleteSqliteOmitted(rows, table_name) == rows

\* DELETE FROM layer_styles WHERE f_table_name=? AND styleName=?
DeleteSqlite(rows, table_name) ==
    Without(rows, {r \in RowsOf(rows) : SqliteKeyMatches(r, table_name)})

\* INSERT INTO layer_styles (..) VALUES ('','',?,?,?,?,?,1,'','')
InsertSqlite(rows, table_name, payload) ==
    Append(rows, Row("", "", table_name, payload))

\* the writer on a connection that commits every statement
save_style_sqlite_autocommit(rows, table_name, payload, failed) ==
    CASE failed = "delete" -> rows
      [] failed = "insert" -> DeleteSqlite(rows, table_name)
      [] OTHER -> InsertSqlite(DeleteSqlite(rows, table_name), table_name, payload)

\* save_style_sqlite / save_style_to_gpkg: the table after the call; an
\* exception before con.commit() leaves the transaction uncommitted
save_style_sqlite(rows, table_name, payload, failed) ==
    IF failed = "none"
    THEN InsertSqlite(DeleteSqlite(rows, table_name), table_name, payload)
    ELSE rows

\* the DELETE keyed by the table name alone
PgKeyTableOnly(row, table_name) ==
    row.table = table_name /\ row.style = table_name

\* WHERE [f_table_catalog=%s AND] f_table_schema=%s AND f_table_name=%s
\* AND stylename=%s
PgKeyMatches(row, table_name) ==
    /\ script = "producao" => row.catalog = DbName
    /\ row.schema = PG_SCHEMA
    /\ row.table = table_name
    /\ row.style = table_name

\* DELETE FROM public.layer_styles WHERE ..
DeletePg(rows, table_name) ==
    Without(rows, {r \in RowsOf(rows) : PgKeyMatches(r, table_name)})

\* INSERT INTO public.layer_styles (..): the catalog is db_name in producao
\* and '' in DB-sld
InsertPg(rows, table_name, payload) ==
    Append(rows, Row(IF script = "producao" THEN DbName ELSE "",
                     PG_SCHEMA, table_name, payload))

\* save_style_pg and the except block of its caller: the committed table
\* after the call; an exception before conn.commit() commits nothing
save_style_pg(rows, table_name, payload, failed) ==
    IF failed = "none"
    THEN InsertPg(DeletePg(rows, table_name), table_name, payload)
    ELSE rows

\* rows found in public.layer_styles before the run: written by DB-sld
\* (empty catalog), written by producao, and of another schema
PriorRows ==
    {Row("", PG_SCHEMA, "t_a", "p0"), Row(DbName, PG_SCHEMA, "t_a", "p0"),
     Row(DbName, "outro", "t_a", "p0")}

PriorTables == UNION {[1..k -> PriorRows] : k \in 0..MaxPrior}

InitRegistry ==
    /\ script \in {"producao", "DB-sld", "gpkg"}
    /\ TABLE_PREFIX = PrefixTeste
    /\ TRUNCATE_LIMIT = DefaultLimit
    /\ pc = "styles"
    /\ GENERATE_LOCAL_GPKG = TRUE /\ GENERATE_LOCAL_STYLES = TRUE
    /\ UPLOAD_TO_POSTGIS = TRUE /\ UPLOAD_STYLES_TO_PG = TRUE
    /\ GENERATE_SLD_FILES = TRUE
    /\ LAYER_FILTER = <<>> /\ OUTPUT_GPKG = ""
    /\ layers = <<>> /\ i_layer = 0
    /\ sucesso_gpkg = 0 /\ sucesso_pg = 0 /\ falha = 0
    /\ last_log = NoLog /\ printed = {}
    /\ output_gpkg = "written"
    /\ rollback = "none"
    /\ pg_conn = IF script = "gpkg" THEN "none" ELSE "open"
    /\ layer_styles = <<>>
    /\ pg_layer_styles \in (IF script = "gpkg" THEN {<<>>} ELSE PriorTables)
    /\ last_save = NoSave
    /\ rename_map = <<>>
    /\ BatchIdle
    /\ PathIdle
    /\ fields = <<>> /\ field_rename = <<>> /\ style = <<>>
    /\ qml_xml = <<>> /\ sld_xml = <<>>
    /\ text = <<>> /\ add_prefix = FALSE /\ result = <<>>
    /\ text2 = <<>> /\ result2 = <<>>

registryIdle == <<cfgVars, sanVars, layerVars, flagVars, layers, i_layer,
                  countVars, last_log, printed, output_gpkg, rename_map, batchVars,
                  pathVars>>

\* save_style_sqlite(final_output, clean_name, geom_col, qml_xml, sld_xml)
\* and the except block of the caller
SaveStyleSqlite ==
    /\ pc = "styles"
    /\ \E table_name \in StyleTables, payload \in StylePayloads, failed \in FailPoints :
        /\ layer_styles' = save_style_sqlite(layer_styles, table_name, payload, failed)
        /\ last_save' = [store |-> "sqlite", table |-> table_name,
                         payload |-> payload, failed |-> failed]
    /\ UNCHANGED <<registryIdle, pc, pg_layer_styles, pg_conn, rollback>>

\* save_style_pg(pg_conn, ..) and the except block of the caller with its
\* rollback; a connection whose rollback failed refuses the first statement
SaveStylePgHandled ==
    /\ pc = "styles"
    /\ script # "gpkg"
    /\ \E table_name \in StyleTables, payload \in StylePayloads,
          failed \in FailPoints, rollback_ok \in BOOLEAN :
        /\ pg_conn = "failed" => failed = "delete"
        /\ pg_layer_styles' = save_style_pg(pg_layer_styles, table_name, payload, failed)
        /\ last_save' = [store |-> "pg", table |-> table_name,
                         payload |-> payload, failed |-> failed]
        /\ pg_conn' = IF failed = "none" THEN pg_conn
                      ELSE IF rollback_ok THEN "open" ELSE "failed"
        /\ rollback' = IF failed = "none" THEN rollback ELSE RollbackOutcome(rollback_ok)
    /\ UNCHANGED <<registryIdle, pc, layer_styles>>

NextRegistry == SaveStyleSqlite \/ SaveStylePgHandled

SpecRegistry == InitRegistry /\ [][NextRegistry]_vars

(***************************************************************************)
(* Failures of the writes of a layer.                                      *)
(***************************************************************************)
WriteSteps == {"A", "B", "B_save", "B2", "C", "D"}

StyleDests == {"style_gpkg", "sld_file", "style_pg"}

CountedDests == {"gpkg", "postgis"}

Rank(st) == CHOOSE j \in 1..Len(StepsOf(script)) : StepsOf(script)[j] = st

\* a step that logs a failed write
WriteFailed == last_log' # last_log /\ ~last_log'.ok

\* the run moves to a later step of the layer or to the next layer
Advances ==
    \/ /\ i_layer' = i_layer
       /\ pc' \in WriteSteps
       /\ Rank(pc') > Rank(pc)
    \/ /\ i_layer' = i_layer + 1
       /\ pc' = "loop"

\* C9 as stated: every failed write of a layer to a destination increments
\* falha by one and the run advances to the next destination or layer.
C9_EveryFailureCounted ==
    [][WriteFailed => (falha' = falha + 1 /\ Advances)]_vars

\* a failed write is counted in falha exactly when it is the local container
\* write or the database import, and then the layer is abandoned
FailureHandled ==
    WriteFailed =>
        (/\ falha' = IF last_log'.dest \in CountedDests THEN falha + 1 ELSE falha
         /\ last_log'.dest \in CountedDests => (pc' = "loop" /\ i_layer' = i_layer + 1)
         /\ Advances)

\* C9: a failed local container write or database import increments falha
\* by one and the run goes to the next layer; a failed style write (local
\* style record, .sld file, database style record) leaves falha unchanged
\* and the run advances to the next destination or layer; every step of a
\* layer advances, so no write is retried.
C9_CountedOrWarned ==
    /\ [][FailureHandled]_vars
    /\ [][(pc \in WriteSteps => Advances)]_vars

\* a style write of layer 1 failed, falha is still 0 and the run is at
\* the next layer
C9_Witness ==
    /\ last_log = [layer |-> 1, dest |-> "style_pg", ok |-> FALSE]
    /\ falha = 0
    /\ sucesso_pg = 1
    /\ pc = "loop"
    /\ i_layer = 2

\* the database import runs for the layers of this run
ImportEnabled ==
    \/ script \in {"DB-sld", "DB"}
    \/ script = "producao" /\ UPLOAD_TO_POSTGIS

\* an import that raises counts once in falha, not in sucesso_pg, and the
\* loop goes on with the next layer of the same list
ImportFailureStep ==
    (WriteFailed /\ last_log'.dest = "postgis") =>
        (/\ falha' = falha + 1
         /\ sucesso_pg' = sucesso_pg
         /\ layers' = layers
         /\ pc' = "loop"
         /\ i_layer' = i_layer + 1)

\* falha grows by one at a time, and the layer ends when it does
FalhaOncePerLayer ==
    falha' # falha =>
        (pc \in WriteSteps /\ falha' = falha + 1 /\ i_layer' = i_layer + 1)

\* C10: a database import that raises adds exactly one to falha for that
\* layer, leaves sucesso_pg unchanged and the loop goes on with the next
\* layer; falha never grows by more than one in a layer; every layer of the
\* list is reached, and at the end each layer has counted once in
\* sucesso_pg or in falha.
C10_ImportFailureCounted ==
    /\ [][ImportFailureStep]_vars
    /\ [][FalhaOncePerLayer]_vars
    /\ [](pc = "loop" => printed = 1..(i_layer - 1))
    /\ [](pc = "done" => printed = 1..Len(layers))
    /\ []((pc = "done" /\ ImportEnabled) => sucesso_pg + falha = Len(layers))

\* the import of layer 1 raised and layer 2 was imported afterwards
C10_Witness ==
    /\ script = "DB"
    /\ pc = "done"
    /\ Len(layers) = 2
    /\ falha = 1
    /\ sucesso_pg = 1
    /\ last_log = [layer |-> 2, dest |-> "postgis", ok |-> TRUE]
    /\ printed = {1, 2}

(***************************************************************************)
(* Style write failures and the remaining destinations.                    *)
(***************************************************************************)
StyleWriteSteps == {"B_save", "B2", "D"}

\* the fixed order of the steps of a layer
StepOrder == <<"A", "B", "B_save", "B2", "C", "D">>

OrderOf(st) == CHOOSE j \in 1..Len(StepOrder) : StepOrder[j] = st

\* the steps of the script that come after step st
LaterSteps(st) ==
    {StepsOf(script)[j] : j \in {k \in 1..Len(StepsOf(script)) :
                                   OrderOf(StepsOf(script)[k]) > OrderOf(st)}}

\* a failed style write changes nothing but the log (and, for the database
\* style record, the connection): the run goes to the very next step of the
\* layer, with the payloads and the counters it had
StyleFailureFallsThrough ==
    (pc \in StyleWriteSteps /\ WriteFailed) =>
        (/\ IF LaterSteps(pc) = {}
            THEN pc' = "loop" /\ i_layer' = i_layer + 1
            ELSE /\ pc' \in LaterSteps(pc)
                 /\ \A st \in LaterSteps(pc) : OrderOf(pc') <= OrderOf(st)
                 /\ i_layer' = i_layer
         /\ qml_xml' = qml_xml /\ sld_xml' = sld_xml
         /\ UNCHANGED <<flagVars, countVars, layers, output_gpkg>>)

\* a failed database style write is followed by a rollback attempt, whose
\* exception does not leave the loop
PgStyleFailureRollsBack ==
    (pc = "D" /\ WriteFailed) =>
        (/\ rollback' \in {"done", "raised"}
         /\ pc' = "loop"
         /\ i_layer' = i_layer + 1)

\* at the loop head a remaining layer is always started, whatever the state
\* of the connection
NextLayerStarted ==
    (pc = "loop" /\ i_layer <= Len(layers)) =>
        (pc' = StepsOf(script)[1] /\ i_layer' = i_layer /\ i_layer \in printed')

\* C11: a failed style write (local style record, .sld file, database style
\* record) leaves the run at the next destination of the same layer, with
\* the payloads unchanged; a failed database style write is followed by a
\* rollback attempt on the shared connection whose own failure is swallowed,
\* and the next layer is then processed.
C11_StyleFailureDoesNotBlock ==
    /\ [][StyleFailureFallsThrough]_vars
    /\ [][PgStyleFailureRollsBack]_vars
    /\ [][NextLayerStarted]_vars

\* the database style write of layer 1 failed, the rollback raised, and
\* layer 2 is being processed
C11_Witness ==
    /\ last_log = [layer |-> 1, dest |-> "style_pg", ok |-> FALSE]
    /\ pg_conn = "failed"
    /\ i_layer = 2
    /\ 2 \in printed
    /\ pc \in WriteSteps

(***************************************************************************)
(* Failure of the local container write.                                   *)
(***************************************************************************)
\* the failed local container write is counted once and ends the layer
LocalFailureEndsLayer ==
    (pc = "A" /\ WriteFailed) =>
        (/\ last_log'.dest = "gpkg"
         /\ falha' = falha + 1
         /\ sucesso_gpkg' = sucesso_gpkg /\ sucesso_pg' = sucesso_pg
         /\ pc' = "loop"
         /\ i_layer' = i_layer + 1)

\* the write reported after a failed local container write is of a later layer
NoWriteAfterLocalFailure ==
    (last_log.dest = "gpkg" /\ ~last_log.ok /\ last_log' # last_log) =>
        last_log'.layer > last_log.layer

\* C12: when the local container write of a layer fails, falha grows by one,
\* the run goes to the next layer, and no other destination (local style
\* record, .sld file, database import, database style record) is written for
\* that layer.
C12_LocalFailureSkipsLayer ==
    /\ [][LocalFailureEndsLayer]_vars
    /\ [][NoWriteAfterLocalFailure]_vars
    /\ []((last_log.dest = "gpkg" /\ ~last_log.ok /\ pc \in WriteSteps)
            => i_layer > last_log.layer)

\* the local container write of layer 1 failed in a run with every
\* destination switched on, and layer 2 is at its first step
C12_Witness ==
    /\ script = "producao"
    /\ GENERATE_LOCAL_STYLES /\ UPLOAD_TO_POSTGIS /\ UPLOAD_STYLES_TO_PG
    /\ GENERATE_SLD_FILES
    /\ last_log = [layer |-> 1, dest |-> "gpkg", ok |-> FALSE]
    /\ falha = 1
    /\ sucesso_gpkg = 0 /\ sucesso_pg = 0
    /\ pc = "A"
    /\ i_layer = 2

(***************************************************************************)
(* Configuration errors.                                                   *)
(***************************************************************************)
\* C13: a run aborted by a configuration error (no database name in the
\* saved connection, connection not opened, no layer found because the input
\* container is missing or invalid) has processed no layer, has written no
\* destination, has not deleted an existing output container, and has closed
\* the database connection it had opened.
C13_ConfigErrorAborts ==
    pc = "aborted" =>
        /\ printed = {}
        /\ i_layer = 0
        /\ last_log = NoLog
        /\ sucesso_gpkg = 0 /\ sucesso_pg = 0 /\ falha = 0
        /\ output_gpkg \in {"absent", "old"}
        /\ pg_conn \in {"none", "closed"}

\* the run was aborted after the connection had been opened, with an output
\* container of an earlier run on disk
C13_Witness ==
    /\ pc = "aborted"
    /\ pg_conn = "closed"
    /\ output_gpkg = "old"

(***************************************************************************)
(* The style registries.                                                   *)
(***************************************************************************)
\* the rows of a table stored under the local key of table_name
LocalRecords(rows, table_name) ==
    {k \in 1..Len(rows) : SqliteKeyMatches(rows[k], table_name)}

\* a call of the local writer has just returned or raised
SqliteCall == last_save'.store = "sqlite" /\ pc = "styles"

\* a call of the database writer has just returned or raised
PgCall == last_save'.store = "pg" /\ pc = "styles"

\* a successful local write leaves exactly one record of its key, with its
\* payload, and the records of the other keys as they were; a failing one
\* leaves the table as it was
LocalWriteReplaces ==
    SqliteCall =>
        IF last_save'.failed = "none"
        THEN /\ \E k \in 1..Len(layer_styles') :
                  /\ LocalRecords(layer_styles', last_save'.table) = {k}
                  /\ layer_styles'[k].payload = last_save'.payload
             /\ \A t \in StyleTables \ {last_save'.table} :
                  {layer_styles'[k] : k \in LocalRecords(layer_styles', t)}
                    = {layer_styles[k] : k \in LocalRecords(layer_styles, t)}
        ELSE layer_styles' = layer_styles

\* C14: after any sequence of local style writes, successful or failing, the
\* local layer_styles table holds at most one record per (f_table_name,
\* styleName), and a successful write leaves the record of its key with its
\* payload, which later failing writes and writes of other keys leave alone.
C14_OneLocalRecordPerKey ==
    /\ [](\A t \in StyleTables : Cardinality(LocalRecords(layer_styles, t)) <= 1)
    /\ [][LocalWriteReplaces]_vars

\* the record of t_a holds p2 after a later write of p1 for t_a failed at
\* its insert, next to a record of t_b
C14_Witness ==
    /\ last_save = [store |-> "sqlite", table |-> "t_a", payload |-> "p1",
                    failed |-> "insert"]
    /\ \E k \in 1..Len(layer_styles) :
         layer_styles[k] = Row("", "", "t_a", "p2")
    /\ LocalRecords(layer_styles, "t_b") # {}

\* the key of a database style record: schema, table name and style name,
\* and in producao the catalog
UnderKey(row, table_name) ==
    /\ row.schema = PG_SCHEMA
    /\ row.table = table_name
    /\ row.style = table_name
    /\ script = "producao" => row.catalog = DbName

\* the rows of public.layer_styles stored under the key of table_name
PgRecords(rows, table_name) ==
    {k \in 1..Len(rows) : UnderKey(rows[k], table_name)}

\* C15 as stated: when the insert fails after the delete, the record stored
\* before under that key is absent from the table once the failure has been
\* handled.
C15_InsertFailureLosesRecord ==
    /\ [][(SqliteCall /\ last_save'.failed = "insert"
            /\ LocalRecords(layer_styles, last_save'.table) # {})
          => LocalRecords(layer_styles', last_save'.table) = {}]_vars
    /\ [][(PgCall /\ last_save'.failed = "insert"
            /\ PgRecords(pg_layer_styles, last_save'.table) # {})
          => PgRecords(pg_layer_styles', last_save'.table) = {}]_vars

\* a call of a writer that raises, at the delete, at the insert or at the
\* commit, leaves the table as it was
FailedWriteKeepsTable ==
    /\ (SqliteCall /\ last_save'.failed # "none") => layer_styles' = layer_styles
    /\ (PgCall /\ last_save'.failed # "none") =>
         (pg_layer_styles' = pg_layer_styles /\ rollback' \in {"done", "raised"})

\* C15: in the style registry writers the delete and the insert belong to
\* one uncommitted transaction, so when the insert fails after the delete
\* the record stored before under that key is still in the table once the
\* failure has been handled (local transaction discarded, database
\* transaction rolled back by the caller).
C15_InsertFailureKeepsRecord ==
    [][FailedWriteKeepsTable]_vars

\* the insert of p2 for t_a failed on the database connection and the row
\* found before the run is still there; the local record of t_a still holds
\* p1
C15_Witness ==
    /\ last_save = [store |-> "pg", table |-> "t_a", payload |-> "p2",
                    failed |-> "insert"]
    /\ PgRecords(pg_layer_styles, "t_a") # {}
    /\ \A k \in PgRecords(pg_layer_styles, "t_a") : pg_layer_styles[k].payload = "p0"
    /\ \E k \in 1..Len(layer_styles) : layer_styles[k] = Row("", "", "t_a", "p1")

\* the rows with f_table_name = stylename = table_name
NamedRecords(rows, table_name) ==
    {k \in 1..Len(rows) : rows[k].table = table_name /\ rows[k].style = table_name}

\* C16 as stated: after a successful save_style_pg for table name T the
\* table holds exactly one record with f_table_name = T and stylename = T,
\* whatever it held before.
C16_OneRemoteRecordPerName ==
    [][(PgCall /\ last_save'.failed = "none")
        => Cardinality(NamedRecords(pg_layer_styles', last_save'.table)) = 1]_vars

\* a successful database write leaves exactly one record under the key of
\* its DELETE, with its payload, and every row outside that key as it was
PgWriteReplaces ==
    (PgCall /\ last_save'.failed = "none") =>
        /\ \E k \in 1..Len(pg_layer_styles') :
             /\ PgRecords(pg_layer_styles', last_save'.table) = {k}
             /\ pg_layer_styles'[k].payload = last_save'.payload
             /\ pg_layer_styles'[k].schema = PG_SCHEMA
             /\ pg_layer_styles'[k].catalog = IF script = "producao" THEN DbName ELSE ""
        /\ Without(pg_layer_styles', {pg_layer_styles'[k] :
                        k \in PgRecords(pg_layer_styles', last_save'.table)})
             = Without(pg_layer_styles, {pg_layer_styles[k] :
                        k \in PgRecords(pg_layer_styles, last_save'.table)})

\* C16: after a successful save_style_pg for table name T the table holds
\* exactly one record under the key of the script (schema, f_table_name = T,
\* stylename = T, and in producao also the catalog); rows of another schema
\* (in producao also of another catalog, such as those written by DB-sld)
\* are left as they were, so several records with f_table_name = T and
\* stylename = T can coexist.
C16_OneRemoteRecordPerKey ==
    [][PgWriteReplaces]_vars

\* producao has written t_a next to the row that DB-sld had written for the
\* same schema and table
C16_Witness ==
    /\ script = "producao"
    /\ last_save = [store |-> "pg", table |-> "t_a", payload |-> "p1",
                    failed |-> "none"]
    /\ pg_layer_styles = <<Row("", PG_SCHEMA, "t_a", "p0"),
                           Row(DbName, PG_SCHEMA, "t_a", "p1")>>

(***************************************************************************)
(* Order of the steps.                                                     *)
(***************************************************************************)
\* the place of a destination in the order of the steps of a layer
DestOrder(dest) ==
    CASE dest = "gpkg"       -> OrderOf("A")
      [] dest = "style_gpkg" -> OrderOf("B_save")
      [] dest = "sld_file"   -> OrderOf("B2")
      [] dest = "postgis"    -> OrderOf("C")
      [] dest = "style_pg"   -> OrderOf("D")
      [] OTHER               -> 0

\* from a step of a layer the run goes to a later step of the same layer or
\* ends the layer
StepsInOrder ==
    pc \in WriteSteps =>
        \/ pc' \in WriteSteps /\ OrderOf(pc') > OrderOf(pc) /\ i_layer' = i_layer
        \/ pc' = "loop" /\ i_layer' = i_layer + 1

\* the loop variable moves only when a layer ends, and only forward
LayersInOrder ==
    i_layer' # i_layer =>
        /\ i_layer' = i_layer + 1
        /\ pc' = "loop"
        /\ pc \in WriteSteps \/ pc = "prepare"

\* a write is reported for the current layer, by the step of its destination
\* (or by the export that shares its try block) and before the next step,
\* after the writes already reported
WritesInOrder ==
    last_log' # last_log =>
        /\ last_log'.layer = i_layer
        /\ pc \in WriteSteps
        /\ DestOrder(last_log'.dest) >= OrderOf(pc)
        /\ pc' \in WriteSteps => DestOrder(last_log'.dest) < OrderOf(pc')
        /\ \/ last_log'.layer > last_log.layer
           \/ /\ last_log'.layer = last_log.layer
              /\ DestOrder(last_log'.dest) > DestOrder(last_log.dest)

\* C17: the steps of a layer occur in the order local container write, style
\* export, local style write, (.sld file,) database import, database style
\* write, and every step of the layer at position k completes or fails
\* before any step of the layer at position k+1 starts.
C17_StepsInOrder ==
    /\ [][StepsInOrder]_vars
    /\ [][LayersInOrder]_vars
    /\ [][WritesInOrder]_vars
    /\ [](pc \in WriteSteps => (i_layer \in 1..Len(layers) /\ printed = 1..i_layer))

\* the second layer is at its last step after its import, both layers
\* written to the local container
C17_Witness ==
    /\ script = "producao"
    /\ pc = "D"
    /\ i_layer = 2
    /\ sucesso_gpkg = 2
    /\ sucesso_pg = 2
    /\ last_log = [layer |-> 2, dest |-> "postgis", ok |-> TRUE]

(***************************************************************************)
(* Termination of clean_and_export-producao.py.                            *)
(***************************************************************************)
\* C18: a run of clean_and_export-producao.py that passed the configuration
\* checks and enumerated at least one layer does not end with an uncaught
\* IndexError, whatever LAYER_FILTER holds: it goes on to the loop and the
\* summary.
C18_RunEndsWithSummary ==
    script = "producao" => pc # "IndexError"

(***************************************************************************)
(* Field names in clean_and_export_gpkg.py.                                *)
(***************************************************************************)
\* C19: in clean_and_export_gpkg.py the field map given to refactorfields
\* names every field of the exported layer exactly as in the source layer.
C19_FieldsKeptAsInSource ==
    (script = "gpkg" /\ pc = "renamed") =>
        \A k \in 1..Len(field_rename) : field_rename[k].clean = field_rename[k].orig

(***************************************************************************)
(* 02-py_script_renomear_minusculo_campos.py: the fields of a layer are    *)
(* renamed in place to lowercase, in two phases.                           *)
(***************************************************************************)
LowerFieldNames ==
    { <<"I","D">>, <<"i","d">>, <<"I","d">>, <<"i","d","_","1">>,
      <<"I","D","_","1">>, <<"i","d","_","2">> }

\* the ordered lists of at most n pairwise distinct names of LowerFieldNames
LowerFieldLists(n) ==
    UNION {{fs \in [1..k -> LowerFieldNames] :
               \A i, j \in 1..k : i < j => fs[i] # fs[j]} : k \in 0..n}

\* the set built from the names as they are, not lowercased
ExactNames(fs) == {fs[i] : i \in 1..Len(fs)}

\* final_names_in_transaction = {f.name().lower() for f in fields}
LoweredNames(fs) == {Lower(fs[i]) : i \in 1..Len(fs)}

\* temp_new_name = new_name; count = 1
\* while temp_new_name in final_names_in_transaction:
\*     temp_new_name = f"{new_name}_{count}"; count += 1
FreeLowerName(new_name, final_names) ==
    IF new_name \in final_names THEN FirstFreeFrom(new_name, 1, final_names)
    ELSE new_name

\* the for loop of phase one from index i on (1-based), with the set of
\* names and the dict built so far
RECURSIVE PhaseOneFrom(_, _, _, _)
PhaseOneFrom(fs, i, final_names, map) ==
    IF i > Len(fs) THEN map
    ELSE IF fs[i] = Lower(fs[i]) THEN PhaseOneFrom(fs, i + 1, final_names, map)
    ELSE LET new_name == FreeLowerName(Lower(fs[i]), final_names)
         IN  PhaseOneFrom(fs, i + 1, final_names \cup {new_name},
                          [j \in DOMAIN map \cup {i} |->
                              IF j = i THEN new_name ELSE map[j]])

\* rename_map of phase_one_rename_with_suffix
phase_one_rename_map(fs) == PhaseOneFrom(fs, 1, LoweredNames(fs), <<>>)

\* layer.renameAttribute(index, new_name) for every entry of the dict
RenamedFields(fs, map) ==
    [i \in 1..Len(fs) |-> IF i \in DOMAIN map THEN map[i] ELSE fs[i]]

\* name.rsplit('_', 1): the position of the last underscore, 0 when the
\* name has none
LastUnderscore(name) ==
    LET S == {k \in 1..Len(name) : name[k] = "_"}
    IN  IF S = {} THEN 0 ELSE CHOOSE k \in S : \A m \in S : m <= k

\* '_' in name, len(parts) == 2 and parts[1].isdigit(): the text after the
\* last underscore is not empty and made of digits only
HasNumericSuffix(name) ==
    LET u == LastUnderscore(name)
    IN  /\ u > 0
        /\ u < Len(name)
        /\ \A k \in (u + 1)..Len(name) : name[k] \in DigitSet

\* parts[0]
BaseOf(name) == SubSeq(name, 1, LastUnderscore(name) - 1)

\* fields_to_fix: the names with a numeric suffix, in the order of the
\* fields (a dict keeps the order of insertion), each with its base
fields_to_fix(fs) ==
    LET keys == SelectSeq(fs, HasNumericSuffix)
    IN  [k \in 1..Len(keys) |-> [temp_name |-> keys[k], final_name |-> BaseOf(keys[k])]]

\* layer.fields().indexOf(temp_name), 1-based, 0 for -1
IndexOf(fs, name) ==
    LET S == {k \in 1..Len(fs) : fs[k] = name}
    IN  IF S = {} THEN 0 ELSE CHOOSE k \in S : \A m \in S : k <= m

\* a layer that renames without looking at the names of its other fields,
\* whatever it is said to do
renameAttributeBlind(fs, idx, new_name, refuses) == [fs EXCEPT ![idx] = new_name]

\* layer.renameAttribute(idx, final_name): the script makes no test of its
\* own and does not look at the value returned, so what happens to a name
\* that is empty or that a field of the layer has is the layer's doing.  A
\* layer of QGIS refuses it (its edit buffer returns False and renames
\* nothing); a layer that does not refuse renames the field whatever the
\* name is.
renameAttribute(fs, idx, new_name, refuses) ==
    IF refuses /\ (new_name = <<>> \/ \E j \in 1..Len(fs) : fs[j] = new_name)
    THEN fs
    ELSE [fs EXCEPT ![idx] = new_name]

\* for temp_name, final_name in fields_to_fix.items(): from entry k on
RECURSIVE CleanupFrom(_, _, _, _)
CleanupFrom(fs, fix, k, refuses) ==
    IF k > Len(fix) THEN fs
    ELSE LET idx == IndexOf(fs, fix[k].temp_name)
         IN  IF idx = 0 THEN CleanupFrom(fs, fix, k + 1, refuses)
             ELSE CleanupFrom(renameAttribute(fs, idx, fix[k].final_name, refuses),
                              fix, k + 1, refuses)

\* the fields of the layer after the renames of phase_two_cleanup_suffix
phase_two_fields(fs, refuses) == CleanupFrom(fs, fields_to_fix(fs), 1, refuses)

\* the state of everything the script does not touch
LowerIdleInit ==
    /\ script = "renomear"
    /\ TABLE_PREFIX = <<>>
    /\ TRUNCATE_LIMIT = DefaultLimit
    /\ field_rename = <<>> /\ style = <<>>
    /\ qml_xml = <<>> /\ sld_xml = <<>>
    /\ text = <<>> /\ add_prefix = FALSE /\ result = <<>>
    /\ text2 = <<>> /\ result2 = <<>>
    /\ GENERATE_LOCAL_GPKG = TRUE /\ GENERATE_LOCAL_STYLES = TRUE
    /\ UPLOAD_TO_POSTGIS = TRUE /\ UPLOAD_STYLES_TO_PG = TRUE
    /\ GENERATE_SLD_FILES = TRUE
    /\ LAYER_FILTER = <<>> /\ OUTPUT_GPKG = ""
    /\ output_gpkg = "absent" /\ rollback = "none"
    /\ sucesso_gpkg = 0 /\ sucesso_pg = 0 /\ falha = 0
    /\ pg_conn = "none" /\ last_log = NoLog
    /\ layer_styles = <<>> /\ pg_layer_styles = <<>> /\ last_save = NoSave
    /\ BatchIdle
    /\ PathIdle

\* the two functions of the file (lines 17 to 89) handed one valid vector
\* layer with its fields, phase one first; the layer either refuses a rename
\* to an empty name or to a name in use, as a layer of QGIS does, or not
InitLower ==
    /\ LowerIdleInit
    /\ pc = "phase_one"
    /\ \E refuses \in BOOLEAN : layers = <<[kind |-> "vector", refuses |-> refuses]>>
    /\ i_layer = 1
    /\ fields \in LowerFieldLists(MaxFields)
    /\ rename_map = <<>>
    /\ printed = {}

lowerIdle == <<cfgVars, sanVars, field_rename, style, qml_xml, sld_xml,
               flagVars, countVars, pg_conn, last_log,
               output_gpkg, rollback, layer_styles, pg_layer_styles, last_save,
               batchVars, pathVars>>

\* success_phase1 = phase_one_rename_with_suffix(layer)
\* if success_phase1: phase_two_cleanup_suffix(layer)
AfterPhaseOne(success_phase1) ==
    IF success_phase1 THEN "phase_two" ELSE "done"

\* phase_one_rename_with_suffix(layer).  The dict is built and applied inside
\* "with edit(layer)", which asserts layer.startEditing() on entry, calls
\* layer.rollBack() when the block raises and raises QgsEditError, without
\* rollBack, when layer.commitChanges() fails.  Every exception is caught at
\* line 57 and the function returns False:
\*   start_refused  editing cannot start: no dict is built, nothing renamed
\*   raises         a statement of the block raises: the renames are rolled
\*                  back
\*   commit_fails   the renames stay in the edit buffer, so layer.fields()
\*                  shows the new names, and the layer stays in edit mode
PhaseOne ==
    /\ pc = "phase_one"
    /\ \E outcome \in {"ok", "start_refused", "raises", "commit_fails"} :
        /\ rename_map' = IF outcome = "start_refused" THEN <<>>
                          ELSE phase_one_rename_map(fields)
        /\ fields' = IF outcome \in {"ok", "commit_fails"}
                     THEN RenamedFields(fields, phase_one_rename_map(fields))
                     ELSE fields
        /\ printed' = printed \cup {<<i_layer, "fase1">>}
                         \cup (IF outcome = "ok" THEN {} ELSE {<<i_layer, "fase1_erro">>})
        /\ pc' = AfterPhaseOne(outcome = "ok")
    /\ UNCHANGED <<lowerIdle, layers, i_layer>>

\* phase_two_cleanup_suffix(layer).  fields_to_fix is built outside the edit
\* block, which is entered only when it is not empty.  Every exception is
\* caught at line 87 and the function returns False, which the caller does
\* not look at:
\*   raises         layer.fields() raises, editing cannot start or a
\*                  statement of the block raises (rollBack): nothing renamed
\*   commit_fails   the stripped names stay in the edit buffer, so
\*                  layer.fields() shows them, and the layer stays in edit mode
PhaseTwo ==
    /\ pc = "phase_two"
    /\ \E outcome \in {"ok", "raises", "commit_fails"} :
        /\ outcome = "commit_fails" => fields_to_fix(fields) # <<>>
        /\ fields' = IF outcome = "raises" THEN fields
                     ELSE phase_two_fields(fields, layers[i_layer].refuses)
        /\ printed' = printed \cup {<<i_layer, "fase2">>}
                         \cup (IF outcome = "ok" THEN {} ELSE {<<i_layer, "fase2_erro">>})
    /\ pc' = "done"
    /\ UNCHANGED <<lowerIdle, layers, i_layer, rename_map>>

NextLower == PhaseOne \/ PhaseTwo

SpecLower == InitLower /\ [][NextLower]_vars

(***************************************************************************)
(* 02-py_script_renomear_minusculo_campos.py run as the file stands.  The  *)
(* print statement of line 107 is followed on its line by the text         *)
(* " color: #000000", which is not Python: the interpreter refuses the     *)
(* file when it compiles it, before the first statement is executed, so    *)
(* that nothing is printed and no field of any layer is renamed.           *)
(***************************************************************************)
\* the layers of the project: a valid vector layer whose provider can
\* rename fields, a valid vector layer whose provider cannot, anything else
LayerKinds == {"vector", "norename", "other"}

\* a layer of the project with the names of its fields
ProjectLayers == [kind : LayerKinds, fields : LowerFieldLists(1)]

ProjectLayerLists(n) == UNION {[1..k -> ProjectLayers] : k \in 0..n}

\* project.mapLayers() when the script is handed to the interpreter
InitRenomear ==
    /\ LowerIdleInit
    /\ pc = "start"
    /\ layers \in ProjectLayerLists(MaxLayers)
    /\ i_layer = 0
    /\ fields = <<>>
    /\ rename_map = <<>>
    /\ printed = {}

\* the interpreter compiles the file: SyntaxError at line 107
CompileScript ==
    /\ pc = "start"
    /\ pc' = "SyntaxError"
    /\ UNCHANGED <<lowerIdle, layers, i_layer, fields, rename_map, printed>>

NextRenomear == CompileScript

SpecRenomear == InitRenomear /\ [][NextRenomear]_vars

\* the names a new name must avoid when the field at index i is reached:
\* the lowercased names of all the fields of the layer and the names given
\* to the fields before it
TakenBefore(fs, map, i) ==
    {Lower(fs[j]) : j \in 1..Len(fs)} \cup {map[j] : j \in {m \in DOMAIN map : m < i}}

\* the names of the other fields of the layer and the names given to the
\* fields before index i
OthersBefore(fs, map, i) ==
    {fs[j] : j \in (1..Len(fs)) \ {i}} \cup {map[j] : j \in {m \in DOMAIN map : m < i}}

\* C20 as stated: a field that needs renaming and whose lowercased name is
\* neither the name of another field of the layer nor a name already given
\* in this phase is renamed to exactly its lowercased name.
C20_SuffixOnlyOnCollision ==
    [][pc = "phase_one" =>
         \A i \in DOMAIN rename_map' :
            Lower(fields[i]) \notin OthersBefore(fields, rename_map', i)
              => rename_map'[i] = Lower(fields[i])]_vars

\* the fields of a layer that phase one has to rename
NeedsRenaming(fs) == {i \in 1..Len(fs) : fs[i] # Lower(fs[i])}

\* every name phase one gives is the lowercased name with the smallest
\* suffix that is free, never the lowercased name itself; only fields that
\* need renaming get a name; a phase one that returned True gave a name to
\* every such field and renamed exactly these fields
AlwaysSuffixed ==
    pc = "phase_one" =>
        /\ DOMAIN rename_map' \subseteq NeedsRenaming(fields)
        /\ \A i \in DOMAIN rename_map' :
             /\ rename_map'[i] # Lower(fields[i])
             /\ \E k \in 1..(2 * Len(fields) + 2) :
                /\ rename_map'[i] = Suffixed(Lower(fields[i]), k)
                /\ rename_map'[i] \notin TakenBefore(fields, rename_map', i)
                /\ \A j \in 1..(k - 1) :
                     Suffixed(Lower(fields[i]), j) \in TakenBefore(fields, rename_map', i)
        /\ pc' = "phase_two" =>
             /\ DOMAIN rename_map' = NeedsRenaming(fields)
             /\ \A i \in 1..Len(fields) :
                   fields'[i] = IF i \in DOMAIN rename_map' THEN rename_map'[i]
                                ELSE fields[i]

\* C20: in phase one every field that needs renaming (its name differs from
\* its lowercased name) receives a numeric suffix: it is renamed to its
\* lowercased name followed by _k, k being the smallest positive integer for
\* which that name is neither the lowercased name of a field of the layer
\* nor a name already given to an earlier field in this phase; the fields
\* already in lowercase are not renamed.
C20_AlwaysSuffixed ==
    [][AlwaysSuffixed]_vars

\* the only field to rename, ID, has no namesake and is renamed id_3,
\* id_1 and id_2 being fields of the layer
C20_Witness ==
    /\ pc = "phase_two"
    /\ DOMAIN rename_map = {1}
    /\ rename_map[1] = <<"i","d","_","3">>
    /\ fields = << <<"i","d","_","3">>, <<"i","d","_","1">>, <<"i","d","_","2">> >>

\* the names of a list of fields are pairwise distinct
NoDuplicateNames(fs) == \A i, j \in 1..Len(fs) : i < j => fs[i] # fs[j]

C22_OwnSuffixesKept ==
    [][((pc = "phase_two" /\ layers[i_layer].refuses) =>
          \A i \in 1..Len(fields) :
             (i \notin DOMAIN rename_map /\ HasNumericSuffix(fields[i]))
                => fields'[i] = fields[i])]_vars

\* C24: every field name given by build_field_rename, the names that
\* received a numeric suffix included, has at most TRUNCATE_LIMIT characters.
\* It is stated for the fields whose sanitized candidate is within the limit
\* (a fallback name can be longer than the limit before the resolver sees
\* it, which is the matter of C2).
C24_ResolvedNamesWithinLimit ==
    pc = "renamed" =>
        \A k \in 1..Len(field_rename) :
            Len(FieldCandidate(field_rename[k].orig)) <= TRUNCATE_LIMIT
               => Len(field_rename[k].clean) <= TRUNCATE_LIMIT

\* C25 as stated: in clean_and_export_gpkg.py the name derived for a field
\* (sanitize_layer_name, then the first occurrence of TABLE_PREFIX removed)
\* equals sanitize_name(name, add_prefix=False) of clean_and_export_gpkg-DB.py
\* with the same prefix and limit. The first field of a layer receives its
\* derived name without suffix.
C25_EqualsUnprefixedSanitizer ==
    (script = "gpkg" /\ pc = "renamed" /\ Len(field_rename) > 0) =>
        field_rename[1].clean = sanitize_name_db(field_rename[1].orig, FALSE)

\* the name holds no letter and no digit: both sanitizers return the
\* fallback name
NoWord(f) == Split(ReSub(DropMn(NFD(f)), " ")) = <<>>

\* sanitize_name(f, add_prefix=False) with the room the prefix takes left out
CutForPrefix(f) ==
    IF NoWord(f) THEN sanitize_name_db(f, FALSE)
    ELSE Slice(sanitize_name_db(f, FALSE), TRUNCATE_LIMIT - Len(TABLE_PREFIX))

\* C25: for a prefix that ends in an underscore and is not longer than the
\* limit, the name derived for a field in clean_and_export_gpkg.py is the
\* name sanitize_name(name, add_prefix=False) of clean_and_export_gpkg-DB.py
\* returns, cut to its first TRUNCATE_LIMIT - len(TABLE_PREFIX) characters
\* (the fallback name is not cut); the two names are equal when the prefix
\* and the camelCase name fit in the limit together. The first field of a
\* layer receives its derived name and every field a name that starts with it.
C25_EqualsSanitizerCutForPrefix ==
    (script = "gpkg" /\ pc = "renamed" /\ Len(TABLE_PREFIX) <= TRUNCATE_LIMIT) =>
        \A k \in 1..Len(field_rename) :
            LET f == field_rename[k].orig
            IN  /\ StartsWith(field_rename[k].clean, CutForPrefix(f))
                /\ k = 1 => field_rename[k].clean = CutForPrefix(f)
                /\ (NoWord(f) \/ Len(TABLE_PREFIX) + Len(sanitize_name_db(f, FALSE)) <= TRUNCATE_LIMIT)
                      => CutForPrefix(f) = sanitize_name_db(f, FALSE)

\* the prefix took two of the three characters of the limit: the field
\* "i d" is named "i", not "iD"
C25_Witness ==
    /\ script = "gpkg" /\ pc = "renamed"
    /\ TABLE_PREFIX = <<"t","_">> /\ TRUNCATE_LIMIT = SmallLimit
    /\ Len(field_rename) = 2
    /\ field_rename[1].orig = <<"i"," ","d">>
    /\ field_rename[1].clean = <<"i">>
    /\ field_rename[2].orig = <<"I","D">>
    /\ field_rename[2].clean = <<"i","_","1">>

(***************************************************************************)
(* 01-py_script_import_em_branch_postgre_valid_geometry.py and             *)
(* py_script_import_em_branch_postgre.py: the layers of one container are  *)
(* imported into the database one by one, in the first script after their  *)
(* geometries have been repaired.                                          *)
(***************************************************************************)
BatchScripts == {"valid_geometry", "import"}

\* table_prefix of the two scripts
table_prefix ==
    IF script = "valid_geometry" THEN <<"d","p","d","u","_","u","s","m","b">>
    ELSE <<"d","p","d","u","_","a","a">>

\* names of layers: "A b", "c-d", "(U+00E7)" (c with cedilla), "Ab"
BatchLayerNames ==
    { <<"A"," ","b">>, <<"c","-","d">>, <<"(","U+00E7",")">>, <<"A","b">> }

\* what the name "layer" is bound to in the console when the script starts:
\* nothing, or a layer left there by an earlier script, with its name
ConsoleLayers ==
    {[bound |-> FALSE, name |-> <<>>]} \cup
    {[bound |-> TRUE, name |-> n] : n \in {<<"x",".","Y">>, <<"A"," ","b">>}}

\* a layer of the container, and the layer in memory the repair returns
SourceLayer(n) == [kind |-> "source", index |-> n]
MemoryLayer(n) == [kind |-> "memory", index |-> n]
NoLayer == [kind |-> "none", index |-> 0]

\* the lists of indices to import again
RetryLists == {<<>>, <<1>>, <<2>>, <<1, 2>>, <<15, 16, 17>>}

\* the chain of str.replace calls of the name cleaning, one character at a
\* time: no replacement produces a character that a later one replaces
CleanChar(c) ==
    IF c \in {" ", "-", "U+00B4"} THEN <<"_">>
    ELSE IF c \in {"(", ")", ".", "'", ",", ";"} THEN <<>>
    ELSE IF c = "U+00C1" THEN <<"A">>
    ELSE IF c = "U+00DA" THEN <<"U">>
    ELSE IF c = "U+00E7" THEN <<"c">>
    ELSE IF c \in {"U+00E3", "U+00E1"} THEN <<"a">>
    ELSE IF c \in {"U+00F3", "U+00F5"} THEN <<"o">>
    ELSE IF c = "U+00ED" THEN <<"i">>
    ELSE IF c = "U+00FA" THEN <<"u">>
    ELSE IF c = "U+00E9" THEN <<"e">>
    ELSE <<c>>

\* name.replace(' ', '_').replace('-', '_') ... .lower()
RECURSIVE CleanLayerName(_)
CleanLayerName(name) ==
    IF name = <<>> THEN <<>>
    ELSE Lower(CleanChar(Head(name))) \o CleanLayerName(Tail(name))

\* str(i).zfill(2)
ZFill2(n) == IF n < 10 THEN <<"0">> \o ToDecimal(n) ELSE ToDecimal(n)

\* the table name built from the name of the layer met in the container
TableNameOfOwn(n, own_name, console_name) ==
    Slice(table_prefix \o <<"_">> \o ZFill2(n) \o <<"_">> \o CleanLayerName(own_name), 63)

\* base_tablename = f"{table_prefix}_{str(i).zfill(2)}_{clean_layer_name}"
\* tablename = base_tablename[:63], clean_layer_name being computed from
\* layer.name(), the name "layer" of the console, not from layer_name
TableNameOf(n, own_name, console_name) ==
    Slice(table_prefix \o <<"_">> \o ZFill2(n) \o <<"_">> \o CleanLayerName(console_name), 63)

InitBatch ==
    /\ script \in BatchScripts
    /\ TABLE_PREFIX = <<>>
    /\ TRUNCATE_LIMIT = DefaultLimit
    /\ pc = "start"
    /\ layers \in UNION {[1..k -> BatchLayerNames] : k \in 0..MaxLayers}
    /\ i_layer = 0
    /\ MODO_DE_RETENTATIVA \in (IF script = "valid_geometry" THEN BOOLEAN ELSE {FALSE})
    /\ NUMEROS_DAS_CAMADAS_PARA_REIMPORTAR \in
          (IF script = "valid_geometry" /\ MODO_DE_RETENTATIVA THEN RetryLists ELSE {<<>>})
    /\ layer \in ConsoleLayers
    /\ fixed_layer = NoLayer
    /\ tablename = <<>>
    /\ calls = <<>>
    /\ fields = <<>> /\ rename_map = <<>> /\ printed = {}
    /\ field_rename = <<>> /\ style = <<>>
    /\ qml_xml = <<>> /\ sld_xml = <<>>
    /\ text = <<>> /\ add_prefix = FALSE /\ result = <<>>
    /\ text2 = <<>> /\ result2 = <<>>
    /\ GENERATE_LOCAL_GPKG = TRUE /\ GENERATE_LOCAL_STYLES = TRUE
    /\ UPLOAD_TO_POSTGIS = TRUE /\ UPLOAD_STYLES_TO_PG = TRUE
    /\ GENERATE_SLD_FILES = TRUE
    /\ LAYER_FILTER = <<>> /\ OUTPUT_GPKG = ""
    /\ output_gpkg = "absent" /\ rollback = "none"
    /\ sucesso_gpkg = 0 /\ sucesso_pg = 0 /\ falha = 0
    /\ pg_conn = "none" /\ last_log = NoLog
    /\ layer_styles = <<>> /\ pg_layer_styles = <<>> /\ last_save = NoSave
    /\ PathIdle

batchIdle == <<cfgVars, sanVars, layerVars, flagVars, countVars, pg_conn, last_log,
               printed, output_gpkg, rollback, layer_styles, pg_layer_styles,
               last_save, rename_map, pathVars, layers, layer,
               MODO_DE_RETENTATIVA, NUMEROS_DAS_CAMADAS_PARA_REIMPORTAR>>

\* the index i is in NUMEROS_DAS_CAMADAS_PARA_REIMPORTAR
InRetryList(n) ==
    \E k \in 1..Len(NUMEROS_DAS_CAMADAS_PARA_REIMPORTAR) :
        NUMEROS_DAS_CAMADAS_PARA_REIMPORTAR[k] = n

\* all_layers = list_gpkg_layers(gpkg_path); if not all_layers: ... else: for
ListLayers ==
    /\ pc = "start"
    /\ pc' = IF layers = <<>> THEN "end" ELSE "loop"
    /\ UNCHANGED <<batchIdle, i_layer, fixed_layer, tablename, calls>>

\* for i, layer_name in enumerate(all_layers, start=1): in the repair script
\* an index that is not in the retry list is passed over; the names
\* fixed_layer and tablename keep what the layer before left in them
TakeBatchLayer ==
    /\ pc = "loop"
    /\ IF i_layer = Len(layers)
       THEN /\ pc' = "end"
            /\ UNCHANGED i_layer
       ELSE /\ i_layer' = i_layer + 1
            /\ pc' = IF script = "valid_geometry"
                     THEN (IF MODO_DE_RETENTATIVA /\ ~InRetryList(i_layer + 1)
                           THEN "loop" ELSE "fix")
                     ELSE "name"
    /\ UNCHANGED <<batchIdle, fixed_layer, tablename, calls>>

\* result = processing.run("native:fixgeometries", fix_params) inside the
\* try block: an exception is reported and the loop takes the next layer,
\* fixed_layer = result['OUTPUT'] not having been executed
FixGeometries ==
    /\ pc = "fix"
    /\ \E ok \in BOOLEAN :
        /\ calls' = Append(calls, [alg |-> "fixgeometries", index |-> i_layer,
                                   input |-> SourceLayer(i_layer), table |-> <<>>,
                                   ok |-> ok])
        /\ fixed_layer' = IF ok THEN MemoryLayer(i_layer) ELSE fixed_layer
        /\ pc' = IF ok THEN "name" ELSE "loop"
    /\ UNCHANGED <<batchIdle, i_layer, tablename>>

\* clean_layer_name = layer.name()...; tablename = base_tablename[:63]: the
\* name "layer" is not assigned by the script; unbound, the statement raises
\* NameError, which the try block of the repair script reports and which
\* ends the import script, whose statement stands outside the try block
NameTable ==
    /\ pc = "name"
    /\ IF ~layer.bound
       THEN /\ pc' = IF script = "valid_geometry" THEN "loop" ELSE "NameError"
            /\ UNCHANGED tablename
       ELSE /\ tablename' = TableNameOf(i_layer, layers[i_layer], layer.name)
            /\ pc' = "import"
    /\ UNCHANGED <<batchIdle, i_layer, fixed_layer, calls>>

\* processing.run("native:importintopostgis", ...) inside a try block
ImportBatch ==
    /\ pc = "import"
    /\ \E ok \in BOOLEAN :
        calls' = Append(calls, [alg |-> "importintopostgis", index |-> i_layer,
                                input |-> IF script = "valid_geometry" THEN fixed_layer
                                          ELSE SourceLayer(i_layer),
                                table |-> tablename, ok |-> ok])
    /\ pc' = "loop"
    /\ UNCHANGED <<batchIdle, i_layer, fixed_layer, tablename>>

NextBatch == ListLayers \/ TakeBatchLayer \/ FixGeometries \/ NameTable \/ ImportBatch

SpecBatch == InitBatch /\ [][NextBatch]_vars

\* the calls of one algorithm made for the layer at index n
CallsFor(alg, n) ==
    {k \in 1..Len(calls) : calls[k].alg = alg /\ calls[k].index = n}

\* the layer at index n is selected for processing
SelectedForRepair(n) == ~MODO_DE_RETENTATIVA \/ InRetryList(n)

\* C26: in the geometry-repair script, for every selected layer whose repair
\* succeeds the import is then attempted with the repaired in-memory layer
\* as input and a destination table named from the prefix, the two-digit
\* index of the layer and the cleaned name of that layer; when the repair
\* fails no import is attempted for the layer, and the run goes on with the
\* next selected layer.
C26_RepairedLayerImported ==
    (script = "valid_geometry" /\ pc \in {"loop", "end"}) =>
        \A n \in 1..i_layer :
            SelectedForRepair(n) =>
               /\ Cardinality(CallsFor("fixgeometries", n)) = 1
               /\ \A k \in CallsFor("fixgeometries", n) :
                     IF calls[k].ok
                     THEN /\ Cardinality(CallsFor("importintopostgis", n)) = 1
                          /\ \A m \in CallsFor("importintopostgis", n) :
                                /\ m > k
                                /\ calls[m].input = MemoryLayer(n)
                                /\ calls[m].table =
                                      TableNameOfOwn(n, layers[n], layer.name)
                     ELSE CallsFor("importintopostgis", n) = {}

\* C27: within one layer the names given by build_field_rename are pairwise
\* distinct when compared without regard to case, in the underscore variant
\* and in the camelCase variants, so that they stay distinct where the
\* destination lowercases the column names.
C27_DistinctIgnoringCase ==
    pc = "renamed" =>
        \A i, j \in 1..Len(field_rename) :
            i < j => Lower(field_rename[i].clean) # Lower(field_rename[j].clean)

\* C28: after the substitutions of export_styles every reference that named
\* the field f in the style of the layer names field_rename[f] and no other
\* field: it is not rewritten a second time by the substitution of a field
\* whose old name is the new name of f.
C28_ReferenceRenamedOnce ==
    pc = "exported" =>
        \A p \in 1..Len(style) :
            /\ qml_xml # <<>> =>
                  qml_xml[p].name = Renamed(field_rename, style[p].name)
            /\ sld_xml # <<>> =>
                  sld_xml[p].name = Renamed(field_rename, style[p].name)

(***************************************************************************)
(* The path of the output container (clean_and_export-producao.py,         *)
(* clean_and_export_gpkg-DB-sld.py, clean_and_export_gpkg.py).  A path is  *)
(* the sequence of its characters, "/" being the separator.                *)
(***************************************************************************)
\* the position of the last separator of a path, 0 when it has none
LastSlash(path) ==
    LET S == {k \in 1..Len(path) : path[k] = "/"}
    IN  IF S = {} THEN 0 ELSE CHOOSE k \in S : \A m \in S : m <= k

\* os.path.dirname(path)
DirName(path) ==
    IF LastSlash(path) = 0 THEN <<>> ELSE SubSeq(path, 1, LastSlash(path) - 1)

\* os.path.basename(path)
BaseName(path) == SubSeq(path, LastSlash(path) + 1, Len(path))

\* os.path.join(a, b) for a relative b
PathJoin(a, b) == IF a = <<>> THEN b ELSE a \o <<"/">> \o b

\* the folders that exist
Folders == {<<"d">>, <<"e">>}

\* the container files the layers of the project can come from: d/a, d/ta, e/a
ContainerPaths == {<<"d","/","a">>, <<"d","/","t","a">>, <<"e","/","a">>}

\* values of OUTPUT_GPKG: empty, a folder, a file, a file of a new folder
OutputSettings ==
    {<<>>, <<"d">>, <<"e">>, <<"d","/","a">>, <<"e","/","o">>, <<"n","/","o">>}

\* values of GPKG_OUTPUT_PREFIX
OutputPrefixes == {<<>>, <<"t">>}

\* the scripts that write a local container
OutputScripts == {"producao", "DB-sld", "gpkg"}

\* the path taken from the source of the first layer: the folder of that
\* file, or the folder given, and the prefixed name of the file
FinalOutputOf(setting, prefix, ls) ==
    IF setting # <<>> /\ setting \in Folders
    THEN PathJoin(setting, prefix \o BaseName(ls[1].source_path))
    ELSE IF setting = <<>>
    THEN PathJoin(DirName(ls[1].source_path), prefix \o BaseName(ls[1].source_path))
    ELSE setting

\* the source containers of the layers to process
SourcesOf(ls) == {ls[k].source_path : k \in 1..Len(ls)}

InitOutput ==
    /\ script \in OutputScripts
    /\ TABLE_PREFIX = <<>>
    /\ TRUNCATE_LIMIT = DefaultLimit
    /\ pc = "output"
    /\ OUTPUT_GPKG \in OutputSettings
    /\ GPKG_OUTPUT_PREFIX \in OutputPrefixes
    /\ layers \in UNION {[1..k -> [source_path : ContainerPaths]] :
                            k \in (IF script = "producao" THEN 0 ELSE 1)..MaxLayers}
    /\ \E others \in {{}, {<<"e","/","o">>}, {<<"d","/","t","a">>}} :
          files = SourcesOf(layers) \cup others
    /\ final_output = <<>>
    /\ removed = {}
    /\ i_layer = 0
    /\ fields = <<>> /\ rename_map = <<>> /\ printed = {}
    /\ field_rename = <<>> /\ style = <<>>
    /\ qml_xml = <<>> /\ sld_xml = <<>>
    /\ text = <<>> /\ add_prefix = FALSE /\ result = <<>>
    /\ text2 = <<>> /\ result2 = <<>>
    /\ GENERATE_LOCAL_GPKG = TRUE /\ GENERATE_LOCAL_STYLES = TRUE
    /\ UPLOAD_TO_POSTGIS = TRUE /\ UPLOAD_STYLES_TO_PG = TRUE
    /\ GENERATE_SLD_FILES = TRUE
    /\ LAYER_FILTER = <<>>
    /\ output_gpkg = "absent" /\ rollback = "none"
    /\ sucesso_gpkg = 0 /\ sucesso_pg = 0 /\ falha = 0
    /\ pg_conn = "none" /\ last_log = NoLog
    /\ layer_styles = <<>> /\ pg_layer_styles = <<>> /\ last_save = NoSave
    /\ BatchIdle

outputIdle == <<cfgVars, sanVars, layerVars, flagVars, countVars, pg_conn, last_log,
                printed, output_gpkg, rollback, layer_styles, pg_layer_styles,
                last_save, rename_map, batchVars, layers, i_layer, GPKG_OUTPUT_PREFIX>>

\* final_output = OUTPUT_GPKG ...: layers[0] is read when OUTPUT_GPKG is
\* empty or an existing folder, and raises IndexError on an empty selection
DefineOutput ==
    /\ pc = "output"
    /\ IF layers = <<>> /\ (OUTPUT_GPKG = <<>> \/ OUTPUT_GPKG \in Folders)
       THEN /\ pc' = "IndexError"
            /\ UNCHANGED final_output
       ELSE /\ final_output' = FinalOutputOf(OUTPUT_GPKG, GPKG_OUTPUT_PREFIX, layers)
            /\ pc' = "makedirs"
    /\ UNCHANGED <<outputIdle, files, removed>>

\* out_dir = os.path.dirname(final_output)
\* if out_dir and not os.path.exists(out_dir): os.makedirs(out_dir)
\* and, in producao, if GENERATE_SLD_FILES:
\*     os.makedirs(sld_folder, exist_ok=True)
\* an OSError of either call (the folder cannot be created, a regular file
\* has the name of the folder) is not caught and ends the run before the
\* removal of the previous output
MakeOutDir ==
    /\ pc = "makedirs"
    /\ \E made \in BOOLEAN, sld_made \in BOOLEAN :
        /\ ~made => (DirName(final_output) # <<>> /\ DirName(final_output) \notin Folders)
        /\ ~sld_made => (script = "producao" /\ GENERATE_SLD_FILES)
        /\ pc' = IF made /\ sld_made THEN "remove" ELSE "OSError"
    /\ UNCHANGED <<outputIdle, final_output, files, removed>>

\* if os.path.exists(final_output): try: os.remove(final_output)
\* except Exception: log_warn(...)
RemovePrevious ==
    /\ pc = "remove"
    /\ IF final_output \in files
       THEN \E remove_ok \in BOOLEAN :
               /\ files' = IF remove_ok THEN files \ {final_output} ELSE files
               /\ removed' = IF remove_ok THEN removed \cup {final_output} ELSE removed
       ELSE UNCHANGED <<files, removed>>
    /\ pc' = "loop"
    /\ UNCHANGED <<outputIdle, final_output>>

NextOutput == DefineOutput \/ MakeOutDir \/ RemovePrevious

SpecOutput == InitOutput /\ [][NextOutput]_vars

\* C29: the output container deleted at the start of the run is never the
\* source container of a layer selected for processing, whatever OUTPUT_GPKG,
\* GPKG_OUTPUT_PREFIX and the containers of the open layers are.
C29_SourceNeverRemoved ==
    removed \cap SourcesOf(layers) = {}

\* the runs that write the local container and import into the database
BothDestinations ==
    \/ script = "DB-sld"
    \/ (script = "producao" /\ GENERATE_LOCAL_GPKG /\ UPLOAD_TO_POSTGIS)

\* the layers whose turn is over
LayersDone == IF pc \in WriteSteps THEN i_layer - 1 ELSE Min(i_layer, Len(layers) + 1) - 1

\* in one step of the loop body at most one counter of the report grows, by
\* one, and the layer is left when it is falha or sucesso_pg
OneCountPerStep ==
    (BothDestinations /\ pc \in WriteSteps) =>
        /\ falha' \in {falha, falha + 1}
        /\ sucesso_pg' \in {sucesso_pg, sucesso_pg + 1}
        /\ sucesso_gpkg' \in {sucesso_gpkg, sucesso_gpkg + 1}
        /\ (falha' - falha) + (sucesso_pg' - sucesso_pg) + (sucesso_gpkg' - sucesso_gpkg) <= 1
        /\ falha' # falha => (pc' = "loop" /\ i_layer' = i_layer + 1)
        /\ (pc' \in WriteSteps /\ i_layer' = i_layer) =>
              (falha' = falha /\ sucesso_pg + falha = i_layer - 1)

\* C30: in clean_and_export_gpkg-DB-sld.py, and in
\* clean_and_export-producao.py with GENERATE_LOCAL_GPKG and
\* UPLOAD_TO_POSTGIS on, after the layer loop sucesso_pg + falha is the
\* number of layers processed and sucesso_pg <= sucesso_gpkg, and falha grows
\* at most once in a layer; the same holds of the layers done at every point
\* of the loop.
C30_ReportCountersAddUp ==
    /\ [][OneCountPerStep]_vars
    /\ []((BothDestinations /\ pc \in {"loop", "close", "done"} \cup WriteSteps) =>
             /\ sucesso_pg <= sucesso_gpkg
             /\ sucesso_gpkg <= LayersDone + 1
             /\ falha <= LayersDone)
    /\ []((BothDestinations /\ pc \in {"loop", "close", "done"}) =>
             sucesso_pg + falha = LayersDone)
    /\ []((BothDestinations /\ pc \in {"close", "done"} /\ i_layer > 0) =>
             sucesso_pg + falha = Len(layers))

\* producao with both destinations on: the local write of the first layer
\* failed, the second layer was written and imported
C30_Witness ==
    /\ script = "producao" /\ GENERATE_LOCAL_GPKG /\ UPLOAD_TO_POSTGIS
    /\ pc = "done"
    /\ Len(layers) = 2
    /\ falha = 1 /\ sucesso_gpkg = 1 /\ sucesso_pg = 1

====
